---------------------------- MODULE Spec2Model ----------------------------
(***************************************************************************)
(* Call ingestion and analysis dispatch of the QA dashboard: the poll      *)
(* pipeline (server/sync.ts), the OpenPhone webhook receiver, the analysis *)
(* dispatcher (server/analysis.ts) and the MySQL stores they share         *)
(* (drizzle/schema.ts).                                                    *)
(*                                                                         *)
(* JavaScript values are tagged records, so that "absent", null, strings   *)
(* and numbers can sit in the same field.  A string is a sequence of       *)
(* one-character strings: trim, includes, length and template              *)
(* concatenation are computed on the characters.                           *)
(***************************************************************************)
EXTENDS Integers, Sequences, FiniteSets, TLC

VARIABLES
    calls,        \* the calls table: a sequence of rows
    transcripts,  \* the transcripts table
    analyses,     \* the analyses table
    health,       \* number of rows of the webhookHealth table
    env,          \* process.env: the two configured line ids (or unset)
    pc,           \* position of every handler / run
    loc,          \* locals of every handler / run
    an,           \* frame of the analyzeCall invocation a process is inside
    log,          \* per process: externally visible events, in order
    probe,        \* input of a pure function under evaluation
    verdict,      \* its output
    sched         \* the scheduler: clock, sync config file, run in progress

vars == <<calls, transcripts, analyses, health, env, pc, loc, an, log, probe, verdict, sched>>

-----------------------------------------------------------------------------
(* JavaScript values *)

Undef == [t |-> "undefined"]
Null == [t |-> "null"]
Str(s) == [t |-> "string", s |-> s]
\* a non-empty string whose characters never matter (an id, an enum word)
Sym(name) == [t |-> "string", sym |-> name]
Num(n) == [t |-> "number", n |-> n, half |-> FALSE]
\* the number n + 0.5
NumHalf(n) == [t |-> "number", n |-> n, half |-> TRUE]
Bool(b) == [t |-> "boolean", b |-> b]
Arr(a) == [t |-> "array", a |-> a]

\* ToBoolean: undefined, null, "", 0 and false are falsy
Truthy(v) ==
    CASE v.t = "undefined" -> FALSE
      [] v.t = "null" -> FALSE
      [] v.t = "string" -> "sym" \in DOMAIN v \/ v.s # <<>>
      [] v.t = "number" -> v.n # 0 \/ v.half
      [] v.t = "boolean" -> v.b
      [] OTHER -> TRUE

\* a || b
Or(a, b) == IF Truthy(a) THEN a ELSE b

\* typeof v === "number"
IsNumber(v) == v.t = "number"

\* v < k and v > k for a number v and an integer k
NumLess(v, k) == v.n < k
NumGreater(v, k) == IF v.half THEN v.n >= k ELSE v.n > k

-----------------------------------------------------------------------------
(* Strings *)

S_undefined == <<"u","n","d","e","f","i","n","e","d">>
S_Unknown == <<"U","n","k","n","o","w","n">>
S_ColonSpace == <<":"," ">>
S_Newline == <<"\n">>
S_BrokenMarker == S_undefined \o S_ColonSpace \o S_undefined
S_no_transcript == <<"n","o"," ","t","r","a","n","s","c","r","i","p","t">>
S_transcript_unavailable ==
    <<"t","r","a","n","s","c","r","i","p","t"," ","u","n","a","v","a","i","l","a","b","l","e">>

Whitespace == {" ", "\n", "\t"}

RECURSIVE TrimStart(_)
TrimStart(s) ==
    IF s # <<>> /\ Head(s) \in Whitespace THEN TrimStart(Tail(s)) ELSE s

RECURSIVE TrimEnd(_)
TrimEnd(s) ==
    IF s # <<>> /\ s[Len(s)] \in Whitespace THEN TrimEnd(SubSeq(s, 1, Len(s) - 1)) ELSE s

\* String.prototype.trim
Trim(s) == TrimEnd(TrimStart(s))

\* String.prototype.includes
Includes(s, sub) ==
    \E i \in 0..(Len(s) - Len(sub)) : SubSeq(s, i + 1, i + Len(sub)) = sub

UpperToLower ==
    [c \in {"A","H","N","T","U","S"} |->
        CASE c = "A" -> "a" [] c = "H" -> "h" [] c = "N" -> "n"
          [] c = "T" -> "t" [] c = "U" -> "u" [] c = "S" -> "s"]

\* String.prototype.toLowerCase, on the alphabet the model's texts use
ToLowerCase(s) ==
    [i \in 1..Len(s) |-> IF s[i] \in DOMAIN UpperToLower THEN UpperToLower[s[i]] ELSE s[i]]

\* the text a template literal `${v}` renders for a string, undefined or null
Render(v) ==
    CASE v.t = "string" -> v.s
      [] v.t = "null" -> <<"n","u","l","l">>
      [] OTHER -> S_undefined

\* Array.prototype.join on a sequence of strings
RECURSIVE Join(_, _)
Join(parts, sep) ==
    IF parts = <<>> THEN <<>>
    ELSE IF Len(parts) = 1 THEN parts[1]
    ELSE parts[1] \o sep \o Join(Tail(parts), sep)

-----------------------------------------------------------------------------
(* The MySQL tables (drizzle/schema.ts).  A table is the sequence of its    *)
(* rows in insertion order; callId carries a UNIQUE constraint in all three *)

\* db.select().from(t).where(eq(t.callId, id)).limit(1)
SelectByCallId(tbl, id) == SelectSeq(tbl, LAMBDA r : r.callId = id)

\* number of rows of a table for one call id
RowCount(tbl, id) == Len(SelectByCallId(tbl, id))

\* the mysql2 driver refuses a bind parameter that is undefined
BindRejected(id) == id.t = "undefined"

\* drizzle leaves out of an UPDATE ... SET every key whose value is undefined
SetFields(row, set) ==
    [f \in DOMAIN row |-> IF f \in DOMAIN set /\ set[f] # Undef THEN set[f] ELSE row[f]]

\* db.update(t).set(set).where(eq(t.callId, id))
UpdateWhere(tbl, id, set) ==
    [i \in DOMAIN tbl |-> IF tbl[i].callId = id THEN SetFields(tbl[i], set) ELSE tbl[i]]

\* a table without the unique index
NoUniqueIndex(tbl, row) == FALSE

\* the UNIQUE(callId) constraint of a table refuses a second row for a call id
UniqueViolation(tbl, row) == \E i \in DOMAIN tbl : tbl[i].callId = row.callId

\* an absent value of a nullable column is stored as NULL
Nullable(v) == IF v = Undef THEN Null ELSE v

\* calls: callId, direction, fromNumber, toNumber, status are NOT NULL without
\* default, direction is an enum, duration defaults to 0
CallInsertRejected(tbl, row) ==
    \/ row.callId.t # "string"
    \/ row.direction \notin {Sym("incoming"), Sym("outgoing")}
    \/ row.fromNumber.t # "string"
    \/ row.toNumber.t # "string"
    \/ row.status.t # "string"
    \/ UniqueViolation(tbl, row)

CallRowStored(row) ==
    [callId |-> row.callId, direction |-> row.direction,
     fromNumber |-> row.fromNumber, toNumber |-> row.toNumber,
     duration |-> IF row.duration = Undef THEN Num(0) ELSE row.duration,
     status |-> row.status, completedAt |-> Nullable(row.completedAt),
     phoneNumberId |-> Nullable(row.phoneNumberId),
     metadata |-> Nullable(row.metadata)]

\* db.insert(calls).values(row), when the table accepts it
InsertCall(tbl, row) == Append(tbl, CallRowStored(row))

\* transcripts: callId, fullText, jsonPayload, status are NOT NULL
TranscriptInsertRejected(tbl, row) ==
    \/ row.callId.t # "string"
    \/ row.fullText.t # "string"
    \/ row.status.t # "string"
    \/ UniqueViolation(tbl, row)

TranscriptRowStored(row) ==
    [callId |-> row.callId, fullText |-> row.fullText, segments |-> row.segments,
     duration |-> Nullable(row.duration), status |-> row.status]

InsertTranscript(tbl, row) == Append(tbl, TranscriptRowStored(row))

\* an INT column stores a fractional number rounded to the nearest integer
IntColumn(v) == IF v.t = "number" /\ v.half THEN Num(v.n + 1) ELSE v

\* analyses: callId, score, summary, complianceCheck are NOT NULL; score is INT
AnalysisInsertRejected(tbl, row) ==
    \/ row.callId.t # "string"
    \/ row.score.t # "number"
    \/ row.summary.t # "string"
    \/ row.complianceCheck \notin {Sym("Pass"), Sym("Fail"), Sym("Review")}
    \/ UniqueViolation(tbl, row)

AnalysisRowStored(row) ==
    [callId |-> row.callId, score |-> IntColumn(row.score), summary |-> row.summary,
     sentiment |-> Nullable(row.sentiment), complianceCheck |-> row.complianceCheck,
     metadata |-> Nullable(row.metadata)]

InsertAnalysis(tbl, row) == Append(tbl, AnalysisRowStored(row))

UpdateAnalysis(tbl, id, set) ==
    UpdateWhere(tbl, id,
        IF "score" \in DOMAIN set THEN [set EXCEPT !.score = IntColumn(set.score)] ELSE set)

-----------------------------------------------------------------------------
(* Transcript normalisation.  A dialogue item of the provider is a record   *)
(* [content, identifier, userId, start, end] of JavaScript values.          *)

\* segment.userId || segment.identifier || 'Unknown'
SpeakerOf(d) == Or(Or(d.userId, d.identifier), Str(S_Unknown))

\* segment.content || ''
TextOf(d) == Or(d.content, Str(<<>>))

\* `${speaker}: ${text}`
DialogueLine(speaker, text) == Render(speaker) \o S_ColonSpace \o Render(text)

\* the transcript row fetchTranscriptForCall builds from a fetched dialogue
FetchedTranscriptData(callId, dialogue, duration, status) ==
    [callId |-> callId,
     fullText |-> Str(Join([i \in DOMAIN dialogue |->
                              DialogueLine(SpeakerOf(dialogue[i]), TextOf(dialogue[i]))],
                           S_Newline)),
     segments |-> Arr([i \in DOMAIN dialogue |->
                     [start |-> dialogue[i].start, end |-> dialogue[i].end,
                      speaker |-> SpeakerOf(dialogue[i]), text |-> TextOf(dialogue[i])]]),
     duration |-> duration, status |-> status]

\* String(d.content).trim().length > 0, for a content that is a string
HasContentField(d) ==
    /\ d.content.t \notin {"undefined", "null"}
    /\ Len(Trim(Render(d.content))) > 0

HasSpeakerField(d) ==
    \/ d.userId.t \notin {"undefined", "null"}
    \/ d.identifier.t \notin {"undefined", "null"}

\* the webhook's filter of the dialogue items it will store
ValidDialogue(dialogue) ==
    SelectSeq(dialogue, LAMBDA d : HasContentField(d) /\ HasSpeakerField(d))

\* d.start || 0
StartOrZero(v) == Or(v, Num(0))

\* the transcript row the webhook builds from the valid items of an event
WebhookTranscriptData(callId, validDialogue, duration, status) ==
    [callId |-> callId,
     fullText |-> Str(Join([i \in DOMAIN validDialogue |->
                              DialogueLine(SpeakerOf(validDialogue[i]), TextOf(validDialogue[i]))],
                           S_Newline)),
     segments |-> Arr([i \in DOMAIN validDialogue |->
                     [start |-> StartOrZero(validDialogue[i].start),
                      end |-> StartOrZero(validDialogue[i].end),
                      speaker |-> SpeakerOf(validDialogue[i]),
                      text |-> TextOf(validDialogue[i])]]),
     duration |-> duration, status |-> status]

\* the historical import reads the fields speaker and text, which a provider
\* dialogue item does not carry
HistoricalField(d, f) == IF f \in DOMAIN d THEN d[f] ELSE Undef

\* the transcript row importHistoricalCalls builds from a fetched dialogue
HistoricalTranscriptData(callId, dialogue, duration, status) ==
    [callId |-> callId,
     fullText |-> Str(Join([i \in DOMAIN dialogue |->
                              DialogueLine(HistoricalField(dialogue[i], "speaker"),
                                           HistoricalField(dialogue[i], "text"))],
                           S_Newline)),
     segments |-> Arr([i \in DOMAIN dialogue |->
                     [start |-> dialogue[i].start, end |-> dialogue[i].end,
                      speaker |-> HistoricalField(dialogue[i], "speaker"),
                      text |-> HistoricalField(dialogue[i], "text")]]),
     duration |-> duration, status |-> status]

-----------------------------------------------------------------------------
(* The dispatcher's content-quality check (analyzeCall) *)

MinTextLength == 10

\* the check of the transcript text alone
TextHasContent(text) ==
    /\ Len(Trim(text)) > MinTextLength
    /\ ~Includes(ToLowerCase(Trim(text)), S_no_transcript)
    /\ ~Includes(ToLowerCase(Trim(text)), S_transcript_unavailable)

\* seg.text && typeof seg.text === 'string' && seg.text.trim().length > 0 &&
\* seg.speaker && seg.speaker !== 'undefined'
ValidSegment(seg) ==
    /\ Truthy(seg.text)
    /\ seg.text.t = "string"
    /\ Len(Trim(seg.text.s)) > 0
    /\ Truthy(seg.speaker)
    /\ seg.speaker # Str(S_undefined)

\* seg.start !== undefined && seg.end !== undefined &&
\* (!seg.text || !seg.speaker || seg.speaker === 'undefined')
BrokenSegment(seg) ==
    /\ seg.start # Undef
    /\ seg.end # Undef
    /\ (~Truthy(seg.text) \/ ~Truthy(seg.speaker) \/ seg.speaker = Str(S_undefined))

\* hasContent and isBroken, from the transcript text and the transcript row
\* (Null when the caller supplied the text)
ContentCheck(transcriptText, transcriptRecord) ==
    LET nonBlank == Truthy(transcriptText) /\ Len(Trim(transcriptText.s)) > 0
        marked == nonBlank /\ Includes(transcriptText.s, S_BrokenMarker)
        byText == nonBlank /\ ~marked /\ TextHasContent(transcriptText.s)
        useSegments == ~byText /\ ~marked /\ transcriptRecord # Null
        segs == IF useSegments THEN transcriptRecord.segments.a ELSE <<>>
        anyValid == \E i \in DOMAIN segs : ValidSegment(segs[i])
        anyBroken == \E i \in DOMAIN segs : BrokenSegment(segs[i])
    IN  [hasContent |-> byText \/ (useSegments /\ anyValid),
         isBroken |-> marked \/ (useSegments /\ ~anyValid /\ anyBroken)]

\* the three outcomes of the check: the scoring function is called on "content"
Classify(transcriptText, transcriptRecord) ==
    LET c == ContentCheck(transcriptText, transcriptRecord)
    IN  IF c.isBroken THEN "broken" ELSE IF c.hasContent THEN "content" ELSE "empty"

-----------------------------------------------------------------------------
(* Line routing *)

DefaultMainPhoneId == Sym("PNVbbBqeqM")
DefaultOutboundPhoneId == Sym("PNBANAZERt")
MinMainDuration == 30

\* the predicate filterCallsForAnalysis keeps a call of a poll run by
FilterKeeps(call, phoneNumberId, e) ==
    LET mainPhoneId == Or(e.main, DefaultMainPhoneId)
        outboundPhoneId == Or(e.outbound, DefaultOutboundPhoneId)
        isMainLine == phoneNumberId = mainPhoneId
        isOutboundLine == phoneNumberId = outboundPhoneId
    IN  \/ /\ isMainLine
           /\ call.direction = Sym("incoming")
           /\ NumGreater(Or(call.duration, Num(0)), MinMainDuration)
        \/ /\ isOutboundLine
           /\ call.direction = Sym("outgoing")

\* filterCallsForAnalysis
FilterCallsForAnalysis(callList, phoneNumberId, e) ==
    SelectSeq(callList, LAMBDA c : FilterKeeps(c, phoneNumberId, e))

\* the webhook's routing decision: phoneLine and shouldAnalyze
WebhookRouting(phoneNumberId, direction, duration, e) ==
    IF phoneNumberId = e.main
    THEN [phoneLine |-> "main",
          shouldAnalyze |-> direction = Sym("incoming")
                            /\ NumGreater(duration, MinMainDuration)]
    ELSE IF phoneNumberId = e.outbound
    THEN [phoneLine |-> "outbound", shouldAnalyze |-> direction = Sym("outgoing")]
    ELSE [phoneLine |-> "unknown", shouldAnalyze |-> FALSE]

-----------------------------------------------------------------------------
(* The analysis dispatcher: analyzeCall and saveAnalysisToDatabase.         *)
(* A scoring-function answer that parses to an object is a record          *)
(* [score, summary, sentiment, complianceChecks, outcome, breakdownPoint];  *)
(* complianceChecks is Undef or a sequence of sub-checks [compliant].       *)

\* an awaited query resolves (TRUE) or rejects (FALSE)
DbResults == BOOLEAN

\* Object.values(checks).filter(c => c?.compliant === true).length
CompliantCount(checks) ==
    Cardinality({i \in DOMAIN checks : checks[i].compliant = Bool(TRUE)})

\* a derivation that fails an inbound call with exactly half of its
\* sub-checks compliant
ComplianceVerdictHalfFails(analysis, callDirection) ==
    IF callDirection = Sym("incoming")
    THEN LET checks == IF Truthy(analysis.complianceChecks)
                       THEN analysis.complianceChecks.a ELSE <<>>
         IN  IF CompliantCount(checks) = Len(checks) THEN Sym("Pass")
             ELSE IF 2 * CompliantCount(checks) <= Len(checks) THEN Sym("Fail")
             ELSE Sym("Review")
    ELSE IF analysis.outcome \in {Sym("Appointment"), Sym("Callback Scheduled")}
         THEN Sym("Pass")
    ELSE IF analysis.outcome = Sym("Not Interested")
            \/ analysis.breakdownPoint = Sym("Introduction")
         THEN Sym("Fail")
    ELSE Sym("Review")

\* the overall compliance verdict saveAnalysisToDatabase derives
ComplianceVerdict(analysis, callDirection) ==
    IF callDirection = Sym("incoming")
    THEN LET checks == IF Truthy(analysis.complianceChecks)
                       THEN analysis.complianceChecks.a ELSE <<>>
         IN  IF CompliantCount(checks) = Len(checks) THEN Sym("Pass")
             ELSE IF 2 * CompliantCount(checks) < Len(checks) THEN Sym("Fail")
             ELSE Sym("Review")
    ELSE IF analysis.outcome \in {Sym("Appointment"), Sym("Callback Scheduled")}
         THEN Sym("Pass")
    ELSE IF analysis.outcome = Sym("Not Interested")
            \/ analysis.breakdownPoint = Sym("Introduction")
         THEN Sym("Fail")
    ELSE Sym("Review")

\* metadata.phoneLine as saveAnalysisToDatabase records it
SavedPhoneLine(phoneNumberId, e) ==
    IF ~Truthy(phoneNumberId) THEN Undef
    ELSE IF phoneNumberId = Or(e.main, DefaultMainPhoneId) THEN Sym("main")
    ELSE IF phoneNumberId = Or(e.outbound, DefaultOutboundPhoneId) THEN Sym("outbound")
    ELSE Undef

\* the row saveAnalysisToDatabase builds (the columns the model follows)
AnalysisData(callId, analysis, phoneNumberId, callDirection, e) ==
    [callId |-> callId,
     score |-> IF IsNumber(analysis.score) THEN analysis.score ELSE Num(0),
     summary |-> Or(analysis.summary, Sym("No summary available")),
     sentiment |-> Or(analysis.sentiment, Null),
     complianceCheck |-> ComplianceVerdict(analysis, callDirection),
     metadata |-> [t |-> "object", kind |-> "analysis",
                   phoneLine |-> SavedPhoneLine(phoneNumberId, e)]]

\* the minimal result analyzeCall saves for an empty or broken transcript
PlaceholderAnalysis(isBroken) ==
    [score |-> Num(0),
     summary |-> IF isBroken THEN Sym("Transcript data is corrupted")
                 ELSE Sym("Transcript contains no dialogue"),
     sentiment |-> Sym("Neutral"),
     complianceChecks |-> Arr(<<[compliant |-> Undef], [compliant |-> Undef],
                               [compliant |-> Undef], [compliant |-> Undef]>>),
     outcome |-> Undef, breakdownPoint |-> Undef]

\* the update analyzeCall applies to the saved placeholder
PlaceholderUpdate(isBroken, phoneNumberId, e) ==
    [score |-> Num(0), sentiment |-> Null, complianceCheck |-> Sym("Review"),
     metadata |-> [t |-> "object",
                   kind |-> IF isBroken THEN "brokenTranscript" ELSE "emptyTranscript",
                   phoneLine |-> IF phoneNumberId = e.main THEN Sym("main")
                                 ELSE IF phoneNumberId = e.outbound THEN Sym("outbound")
                                 ELSE Sym("unknown")]]

\* buildInboundQAPrompt / buildOutboundQAPrompt refuse such a text
PromptRejected(text) ==
    \/ ~Truthy(text)
    \/ Len(Trim(text.s)) = 0
    \/ Includes(text.s, S_BrokenMarker)

MaxScore == 100

\* a validation that forgot the upper end of the range
ScoreRejectedNoUpperBound(score) ==
    \/ ~IsNumber(score)
    \/ NumLess(score, 0)

\* the check analyzeCall makes of the parsed answer's score
ScoreRejected(score) ==
    \/ ~IsNumber(score)
    \/ NumLess(score, 0)
    \/ NumGreater(score, MaxScore)

\* what analyzeCall hands back: a result object, or (never, in the code) an
\* exception that reaches its caller
AnalyzeSuccess(score) ==
    [thrown |-> FALSE, success |-> TRUE, error |-> Undef, score |-> score]

\* a catch block that rethrows instead of returning a result object
AnalyzeFailureRethrown(message) ==
    [thrown |-> TRUE, success |-> Undef, error |-> Sym(message), score |-> Undef]

\* the result object of the catch block of analyzeCall
AnalyzeFailure(message) ==
    [thrown |-> FALSE, success |-> FALSE, error |-> Sym(message), score |-> Undef]

\* the frame of an analyzeCall invocation.  call and transcript are the rows
\* the two lookups destructure: Null before the lookup, Undef when it found
\* no row.  analyses0 is the analyses table when the invocation began.
AnalyzeFrame(options, ret, tbl) ==
    [callId |-> options.callId, providedTranscript |-> options.transcriptText,
     providedDirection |-> options.callDirection, phoneNumberId |-> options.phoneNumberId,
     call |-> Null, transcript |-> Null, transcriptText |-> Undef,
     transcriptRecord |-> Null, class |-> "", callDirection |-> Undef, analysis |-> Null,
     existing |-> FALSE, result |-> Null, ret |-> ret, analyses0 |-> tbl]

NoFrame == [ret |-> "", result |-> Null]

\* analyzeCall hands `result` to the caller waiting at the frame's ret label
AnalyzeReturn(p, result) ==
    /\ pc' = [pc EXCEPT ![p] = an[p].ret]
    /\ an' = [an EXCEPT ![p].result = result]

\* an exception inside the try block of analyzeCall: the catch block returns
AnalyzeCatch(p, message) == AnalyzeReturn(p, AnalyzeFailure(message))

\* the same, for an exception after the locals of `frame` were assigned
AnalyzeCatchWith(p, frame, message) ==
    /\ pc' = [pc EXCEPT ![p] = frame.ret]
    /\ an' = [an EXCEPT ![p] = [frame EXCEPT !.result = AnalyzeFailure(message)]]

\* after the transcript text is resolved: the content check, then either the
\* placeholder save or the prompt and the scoring function
AnalyzeAfterCheck(p, frame) ==
    LET class == Classify(frame.transcriptText, frame.transcriptRecord)
        direction == Or(frame.providedDirection, frame.call.direction)
    IN  IF class # "content"
        THEN /\ pc' = [pc EXCEPT ![p] = "a_save_select"]
             /\ an' = [an EXCEPT ![p] = [frame EXCEPT !.class = class,
                                           !.analysis = PlaceholderAnalysis(class = "broken")]]
        ELSE IF PromptRejected(frame.transcriptText)
        THEN AnalyzeCatchWith(p, [frame EXCEPT !.class = class],
                              "Cannot analyze corrupted or empty transcript")
        ELSE /\ pc' = [pc EXCEPT ![p] = "a_llm"]
             /\ an' = [an EXCEPT ![p] = [frame EXCEPT !.class = class,
                                           !.callDirection = direction]]

\* an analyzeCall that goes on when the call is not stored
AnalyzeLookupCallUnchecked(p) ==
    /\ pc[p] = "a_call"
    /\ \E ok \in DbResults :
        LET rows == SelectByCallId(calls, an[p].callId)
            found == IF rows = <<>> THEN <<[direction |-> Undef]>> ELSE rows
        IN  IF ~ok \/ BindRejected(an[p].callId)
            THEN AnalyzeCatch(p, "db error")
            ELSE IF Truthy(an[p].providedTranscript)
            THEN AnalyzeAfterCheck(p, [an[p] EXCEPT !.call = found[1],
                                         !.transcriptText = an[p].providedTranscript])
            ELSE /\ pc' = [pc EXCEPT ![p] = "a_transcript"]
                 /\ an' = [an EXCEPT ![p].call = found[1]]
    /\ UNCHANGED <<calls, transcripts, analyses, health, env, loc, log, probe, verdict, sched>>

\* analyzeCall: look the call up
AnalyzeLookupCall(p) ==
    /\ pc[p] = "a_call"
    /\ \E ok \in DbResults :
        LET found == SelectByCallId(calls, an[p].callId)
        IN  IF ~ok \/ BindRejected(an[p].callId)
            THEN AnalyzeCatch(p, "db error")
            ELSE IF found = <<>>
            THEN /\ pc' = [pc EXCEPT ![p] = an[p].ret]
                 /\ an' = [an EXCEPT ![p].call = Undef,
                                      ![p].result = AnalyzeFailure("Call not found")]
            ELSE IF Truthy(an[p].providedTranscript)
            THEN AnalyzeAfterCheck(p, [an[p] EXCEPT !.call = found[1],
                                         !.transcriptText = an[p].providedTranscript])
            ELSE /\ pc' = [pc EXCEPT ![p] = "a_transcript"]
                 /\ an' = [an EXCEPT ![p].call = found[1]]
    /\ UNCHANGED <<calls, transcripts, analyses, health, env, loc, log, probe, verdict, sched>>

\* a lookup that takes a missing transcript for an empty one
AnalyzeLookupTranscriptLenient(p) ==
    /\ pc[p] = "a_transcript"
    /\ \E ok \in DbResults :
        LET found == SelectByCallId(transcripts, an[p].callId)
        IN  IF ~ok
            THEN AnalyzeCatch(p, "db error")
            ELSE IF found = <<>>
            THEN AnalyzeAfterCheck(p, [an[p] EXCEPT !.transcript = Undef,
                                         !.transcriptText = Str(<<>>)])
            ELSE AnalyzeAfterCheck(p, [an[p] EXCEPT !.transcript = found[1],
                                         !.transcriptRecord = found[1],
                                         !.transcriptText = Or(found[1].fullText, Str(<<>>))])
    /\ UNCHANGED <<calls, transcripts, analyses, health, env, loc, log, probe, verdict, sched>>

\* analyzeCall: no transcript text was given, look the transcript up
AnalyzeLookupTranscript(p) ==
    /\ pc[p] = "a_transcript"
    /\ \E ok \in DbResults :
        LET found == SelectByCallId(transcripts, an[p].callId)
        IN  IF ~ok
            THEN AnalyzeCatch(p, "db error")
            ELSE IF found = <<>>
            THEN /\ pc' = [pc EXCEPT ![p] = an[p].ret]
                 /\ an' = [an EXCEPT ![p].transcript = Undef,
                                      ![p].result =
                                          AnalyzeFailure("Transcript not found for this call")]
            ELSE AnalyzeAfterCheck(p, [an[p] EXCEPT !.transcript = found[1],
                                         !.transcriptRecord = found[1],
                                         !.transcriptText = Or(found[1].fullText, Str(<<>>))])
    /\ UNCHANGED <<calls, transcripts, analyses, health, env, loc, log, probe, verdict, sched>>


\* the answers of the scoring function: invokeLLM throws, answers without
\* content, with text that is not JSON, with JSON null, or with a JSON object
LlmScores ==
    {Undef, Str(<<"a","b","c">>), Num(-1), Num(0), Num(85), NumHalf(99),
     Num(100), NumHalf(100), Num(150)}

LlmShapes ==
    {[complianceChecks |-> Arr(<<[compliant |-> Bool(TRUE)], [compliant |-> Bool(FALSE)]>>),
      outcome |-> Undef, breakdownPoint |-> Undef],
     [complianceChecks |-> Undef,
      outcome |-> Sym("Appointment"), breakdownPoint |-> Sym("N/A - Success")],
     [complianceChecks |-> Undef,
      outcome |-> Sym("Voicemail"), breakdownPoint |-> Sym("Introduction")]}

LlmObjects ==
    {[score |-> sc, summary |-> Sym("summary"), sentiment |-> Sym("Positive"),
      complianceChecks |-> sh.complianceChecks, outcome |-> sh.outcome,
      breakdownPoint |-> sh.breakdownPoint] : sc \in LlmScores, sh \in LlmShapes}

LlmAnswers ==
    {[k |-> "throw"], [k |-> "nocontent"], [k |-> "badjson"], [k |-> "null"]}
        \cup {[k |-> "object", obj |-> o] : o \in LlmObjects}

\* analyzeCall: invoke the scoring function, parse and validate its answer
AnalyzeInvokeLLM(p) ==
    /\ pc[p] = "a_llm"
    /\ log' = [log EXCEPT ![p] = Append(@, "llm")]
    /\ \E ans \in LlmAnswers :
        IF ans.k = "throw" THEN AnalyzeCatch(p, "LLM request failed")
        ELSE IF ans.k = "nocontent" THEN AnalyzeCatch(p, "No response from LLM")
        ELSE IF ans.k = "badjson" THEN AnalyzeCatch(p, "Unexpected token in JSON")
        ELSE IF ans.k = "null" THEN AnalyzeCatch(p, "Cannot read properties of null")
        ELSE IF ScoreRejected(ans.obj.score)
        THEN AnalyzeCatchWith(p, [an[p] EXCEPT !.analysis = ans.obj],
                              "Invalid score in analysis result")
        ELSE /\ pc' = [pc EXCEPT ![p] = "a_save_select"]
             /\ an' = [an EXCEPT ![p].analysis = ans.obj]
    /\ UNCHANGED <<calls, transcripts, analyses, health, env, loc, probe, verdict, sched>>

\* saveAnalysisToDatabase: build the row, look for an existing analysis
AnalyzeSaveSelect(p) ==
    /\ pc[p] = "a_save_select"
    /\ \E ok \in DbResults :
        IF ~ok
        THEN AnalyzeCatch(p, "db error")
        ELSE /\ pc' = [pc EXCEPT ![p] = "a_save_write"]
             /\ an' = [an EXCEPT ![p].existing = RowCount(analyses, an[p].callId) > 0]
    /\ UNCHANGED <<calls, transcripts, analyses, health, env, loc, log, probe, verdict, sched>>

\* saveAnalysisToDatabase: update the existing row or insert a new one; a
\* database error is logged and rethrown.  The placeholder path goes on to
\* its own update, the scored path returns success.
AnalyzeSaveWrite(p) ==
    /\ pc[p] = "a_save_write"
    /\ \E ok \in DbResults :
        LET f == an[p]
            row == AnalysisData(f.callId, f.analysis, f.phoneNumberId, f.callDirection, env)
            rejected == ~ok \/ (~f.existing /\ AnalysisInsertRejected(analyses, row))
        IN  IF rejected
            THEN /\ AnalyzeCatch(p, "db error")
                 /\ UNCHANGED <<analyses, log>>
            ELSE /\ analyses' = IF f.existing THEN UpdateAnalysis(analyses, f.callId, row)
                                ELSE InsertAnalysis(analyses, row)
                 /\ log' = [log EXCEPT ![p] = Append(@, "analysisWrite")]
                 /\ IF f.class # "content"
                    THEN /\ pc' = [pc EXCEPT ![p] = "a_ph_update"]
                         /\ an' = an
                    ELSE AnalyzeReturn(p, AnalyzeSuccess(f.analysis.score))
    /\ UNCHANGED <<calls, transcripts, health, env, loc, probe, verdict, sched>>

\* a placeholder path that asks the scoring function after all
AnalyzePlaceholderUpdateScored(p) ==
    /\ pc[p] = "a_ph_update"
    /\ pc' = [pc EXCEPT ![p] = "a_llm"]
    /\ UNCHANGED <<calls, transcripts, analyses, health, env, loc, an, log, probe, verdict, sched>>

\* analyzeCall: overwrite the saved placeholder with score 0 / Review and the
\* no-content metadata, then return success
AnalyzePlaceholderUpdate(p) ==
    /\ pc[p] = "a_ph_update"
    /\ \E ok \in DbResults :
        IF ~ok
        THEN /\ AnalyzeCatch(p, "db error")
             /\ UNCHANGED <<analyses, log>>
        ELSE /\ analyses' = UpdateAnalysis(analyses, an[p].callId,
                               PlaceholderUpdate(an[p].class = "broken",
                                                 an[p].phoneNumberId, env))
             /\ log' = [log EXCEPT ![p] = Append(@, "analysisWrite")]
             /\ AnalyzeReturn(p, AnalyzeSuccess(Num(0)))
    /\ UNCHANGED <<calls, transcripts, health, env, loc, probe, verdict, sched>>

\* the steps of analyzeCall, for the process that is inside it
AnalyzeStep(p) ==
    \/ AnalyzeLookupCall(p)
    \/ AnalyzeLookupTranscript(p)
    \/ AnalyzeInvokeLLM(p)
    \/ AnalyzeSaveSelect(p)
    \/ AnalyzeSaveWrite(p)
    \/ AnalyzePlaceholderUpdate(p)

-----------------------------------------------------------------------------
(* A direct dispatch: the analysis.analyzeCall procedure of the API router  *)
(* (also batchAnalyzeCalls, one call id at a time)                          *)

\* the procedure calls analyzeCall with its input
DispatchCall(d) ==
    /\ pc[d] = "d_idle"
    /\ pc' = [pc EXCEPT ![d] = "a_call"]
    /\ an' = [an EXCEPT ![d] = AnalyzeFrame(loc[d].options, "d_return", analyses)]
    /\ log' = [log EXCEPT ![d] = Append(@, "analyze")]
    /\ UNCHANGED <<calls, transcripts, analyses, health, env, loc, probe, verdict, sched>>

\* the procedure returns what analyzeCall returned
DispatchReturn(d) ==
    /\ pc[d] = "d_return"
    /\ pc' = [pc EXCEPT ![d] = "done"]
    /\ loc' = [loc EXCEPT ![d].result = an[d].result]
    /\ an' = [an EXCEPT ![d] = NoFrame]
    /\ UNCHANGED <<calls, transcripts, analyses, health, env, log, probe, verdict, sched>>

-----------------------------------------------------------------------------
(* The webhook receiver: what the handler reads from req.body.  An object   *)
(* is a record tagged "object" whose other fields are its properties.       *)

\* obj.f
Field(obj, f) == IF f \in DOMAIN obj THEN obj[f] ELSE Undef

\* reading a property of undefined or null throws a TypeError
Throws(v) == v.t \in {"undefined", "null"}

\* obj?.f
OptField(obj, f) == IF Throws(obj) THEN Undef ELSE Field(obj, f)

\* arr?.[i], i counted from 0
Elem(arr, i) == IF arr.t = "array" /\ i < Len(arr.a) THEN arr.a[i + 1] ELSE Undef

\* v.length > 0
LengthPositive(v) ==
    CASE v.t = "array" -> Len(v.a) > 0
      [] v.t = "string" -> "sym" \in DOMAIN v \/ Len(v.s) > 0
      [] OTHER -> FALSE

\* only an array has map and filter
IsArray(v) == v.t = "array"

\* const callData = data?.object || data
CallDataOf(data) == Or(OptField(data, "object"), data)

\* x ? new Date(x) : fallback
DateOr(x, fallback) == IF Truthy(x) THEN x ELSE fallback

Now == Sym("now")

\* the locals of the handler before the extraction filled them
WebhookLocals(body) ==
    [body |-> body, type |-> Undef, callId |-> Undef, phoneNumberId |-> Undef,
     direction |-> Undef, duration |-> Undef, status |-> Undef,
     fromNumber |-> Str(<<>>), toNumber |-> Str(<<>>), dialogue |-> Arr(<<>>),
     completedAt |-> Null, phoneLine |-> "unknown", shouldAnalyze |-> FALSE,
     selected |-> FALSE, existing |-> <<>>, wrote |-> "", response |-> "",
     fetch |-> Null, saved |-> FALSE, receivedAt |-> Now]

\* the extraction for a call.transcript.completed event; thrown when the
\* handler's reads raise a TypeError
ExtractTranscriptCompleted(l, data) ==
    LET cd == CallDataOf(data)
        dialogue == IF Throws(cd) THEN Undef
                    ELSE Or(Or(Field(cd, "dialogue"),
                               OptField(Field(cd, "transcript"), "dialogue")),
                            Or(OptField(data, "dialogue"), Arr(<<>>)))
    IN  IF Throws(cd) \/ (LengthPositive(dialogue) /\ ~IsArray(dialogue))
        THEN [thrown |-> TRUE, l |-> l]
        ELSE [thrown |-> FALSE,
              l |-> [l EXCEPT
                  !.callId = Or(Field(cd, "callId"), Field(cd, "id")),
                  !.duration = Or(Field(cd, "duration"), Num(0)),
                  !.status = Or(Field(cd, "status"), Sym("completed")),
                  !.dialogue = dialogue,
                  !.phoneNumberId = Field(cd, "phoneNumberId"),
                  !.direction = Field(cd, "direction"),
                  !.completedAt = DateOr(Field(cd, "completedAt"), l.receivedAt),
                  !.fromNumber = Or(Field(cd, "from"), Str(<<>>)),
                  !.toNumber = Or(Field(cd, "to"), Str(<<>>))]]

\* the extraction for a call.completed event
ExtractCallCompleted(l, data) ==
    LET cd == CallDataOf(data)
        embedded == Or(OptField(Field(cd, "transcript"), "dialogue"), Field(cd, "dialogue"))
        direction == Field(cd, "direction")
        parts == Field(cd, "participants")
        incoming == direction = Sym("incoming")
    IN  IF Throws(cd)
        THEN [thrown |-> TRUE, l |-> l]
        ELSE [thrown |-> FALSE,
              l |-> [l EXCEPT
                  !.callId = Field(cd, "id"),
                  !.phoneNumberId = Field(cd, "phoneNumberId"),
                  !.direction = direction,
                  !.dialogue = IF Truthy(embedded) THEN embedded ELSE Arr(<<>>),
                  !.duration = Or(Field(cd, "duration"), Num(0)),
                  !.fromNumber = Or(Or(Elem(parts, IF incoming THEN 1 ELSE 0),
                                       Field(cd, "from")), Str(<<>>)),
                  !.toNumber = Or(Or(Elem(parts, IF incoming THEN 0 ELSE 1),
                                     Field(cd, "to")), Str(<<>>)),
                  !.status = Field(cd, "status"),
                  !.completedAt = DateOr(Field(cd, "completedAt"), Null)]]

\* the event types the handler processes
IsCallCompleted(type) == type = Sym("call.completed")
IsTranscriptCompleted(type) == type = Sym("call.transcript.completed")

\* extraction and routing decision: the handler's locals before the upsert
WebhookExtract(l, type, data, e) ==
    LET x == IF IsTranscriptCompleted(type) THEN ExtractTranscriptCompleted(l, data)
             ELSE ExtractCallCompleted(l, data)
        r == WebhookRouting(x.l.phoneNumberId, x.l.direction, x.l.duration, e)
    IN  IF x.thrown THEN x
        ELSE [thrown |-> FALSE,
              l |-> [x.l EXCEPT !.type = type, !.phoneLine = r.phoneLine,
                                !.shouldAnalyze = r.shouldAnalyze]]

\* callRecord, the row the handler inserts for a call it has not stored
WebhookCallRecord(l) ==
    [callId |-> l.callId, phoneNumberId |-> l.phoneNumberId,
     fromNumber |-> l.fromNumber, toNumber |-> l.toNumber, direction |-> l.direction,
     status |-> l.status, completedAt |-> l.completedAt, duration |-> l.duration,
     metadata |-> [t |-> "object", kind |-> "webhook", phoneLine |-> l.phoneLine,
                   shouldAnalyze |-> l.shouldAnalyze, webhookEventType |-> l.type,
                   hasTranscript |-> LengthPositive(l.dialogue)]]

\* the SET clause of the handler's update of a stored call
WebhookCallUpdate(l, existing) ==
    [status |-> l.status, completedAt |-> l.completedAt, duration |-> l.duration,
     phoneNumberId |-> Or(l.phoneNumberId, existing.phoneNumberId),
     fromNumber |-> Or(l.fromNumber, existing.fromNumber),
     toNumber |-> Or(l.toNumber, existing.toNumber),
     direction |-> Or(l.direction, existing.direction),
     metadata |-> WebhookCallRecord(l).metadata]

-----------------------------------------------------------------------------
(* Sample texts and speakers *)

T_Thanks == <<"T","h","a","n","k","s"," ","f","o","r"," ","c","a","l","l","i","n","g">>
T_Hello == <<"H","e","l","l","o">>
T_Blank == <<" ", " ">>
N_Agent == <<"U","S","1">>
N_Caller == <<"+","1","5">>

-----------------------------------------------------------------------------
(* fetchTranscriptForCall: fetch a transcript from the provider and upsert  *)
(* it.  server/sync.ts and the webhook module each carry a copy of it.      *)

\* dialogue items as the provider sends them
ItemAgent ==
    [content |-> Str(T_Thanks), identifier |-> Null, userId |-> Str(N_Agent),
     start |-> Num(0), end |-> Num(2)]
ItemCaller ==
    [content |-> Str(T_Hello), identifier |-> Str(N_Caller), userId |-> Null,
     start |-> Num(2), end |-> Num(3)]
\* content but no speaker identifier
ItemNoSpeaker ==
    [content |-> Str(T_Hello), identifier |-> Undef, userId |-> Undef,
     start |-> Num(0), end |-> Num(1)]
\* neither text nor speaker, with and without time stamps
ItemBare ==
    [content |-> Undef, identifier |-> Undef, userId |-> Undef,
     start |-> Num(0), end |-> Num(1)]
ItemBareNull ==
    [content |-> Null, identifier |-> Null, userId |-> Null,
     start |-> Undef, end |-> Undef]

\* the dialogues the provider answers a transcript request with
ProviderDialogues == {<<ItemAgent, ItemCaller>>, <<ItemBare, ItemBare>>, <<ItemBare>>}

\* the text of a number in a template literal
DigitChars == <<"0","1","2","3","4","5","6","7","8","9">>

RECURSIVE Decimal(_)
Decimal(n) ==
    IF n < 10 THEN <<DigitChars[n + 1]>>
    ELSE Decimal(n \div 10) \o <<DigitChars[(n % 10) + 1]>>

S_404 == <<"4","0","4">>
S_ApiError ==
    <<"O","p","e","n","P","h","o","n","e"," ","A","P","I"," ","e","r","r","o","r"," ","(">>
S_KeyInvalid ==
    <<"O","p","e","n","P","h","o","n","e"," ","A","P","I"," ","k","e","y"," ","i","s"," ",
      "i","n","v","a","l","i","d">>
S_phoneNumberId == <<"p","h","o","n","e","N","u","m","b","e","r","I","d">>
S_phone_number == <<"p","h","o","n","e"," ","n","u","m","b","e","r">>
S_PhoneIdNotFound ==
    <<"P","h","o","n","e"," ","n","u","m","b","e","r"," ","I","D"," ","n","o","t"," ",
      "f","o","u","n","d">>
S_NotFound == <<"N","o","t"," ","F","o","u","n","d">>
S_FetchFailed == <<"f","e","t","c","h"," ","f","a","i","l","e","d">>
S_DbError == <<"d","b"," ","e","r","r","o","r">>

\* the body of an error response: its text, and what JSON.parse makes of it
\* (Null when the text is no JSON)
PlainBody == [text |-> S_NotFound, json |-> Null]
PlainBodyNaming404 == [text |-> S_404 \o <<" ">> \o S_NotFound, json |-> Null]
JsonBodyWithMessage ==
    [text |-> <<"{","\"","m","e","s","s","a","g","e","\"",":","\"">> \o S_NotFound
                 \o <<"\"","}">>,
     json |-> [t |-> "object", message |-> Str(S_NotFound)]]
JsonBodyWithoutMessage ==
    [text |-> <<"{","}">>, json |-> [t |-> "object", message |-> Undef]]

ErrorBodies == {PlainBody, PlainBodyNaming404, JsonBodyWithMessage, JsonBodyWithoutMessage}
ErrorStatuses == {400, 401, 404, 500}

\* makeOpenPhoneRequest: the message of the Error it throws for a response
\* that is not ok
RequestErrorMessage(status, body) ==
    LET errorText == body.text
        message == IF body.json = Null THEN Undef ELSE Field(body.json, "message")
        default == S_ApiError \o Decimal(status) \o <<")",":"," ">> \o errorText
    IN  IF status = 401 THEN S_KeyInvalid
        ELSE IF status = 404
        THEN IF body.json # Null /\ Truthy(message) THEN message.s ELSE default
        ELSE IF status = 400
        THEN IF body.json = Null THEN errorText
             ELSE IF Truthy(message) /\ (Includes(message.s, S_phoneNumberId)
                                         \/ Includes(message.s, S_phone_number))
             THEN S_PhoneIdNotFound
             ELSE IF Truthy(message) THEN message.s ELSE errorText
        ELSE default

\* the outcomes of fetchTranscript(callId): a transcript, a response without
\* dialogue, an error response, a request that got no response
TranscriptAnswers ==
    {[k |-> "ok", dialogue |-> d] : d \in ProviderDialogues}
        \cup {[k |-> "nodialogue"]}
        \cup {[k |-> "error", status |-> st, message |-> RequestErrorMessage(st, b)]
                : st \in ErrorStatuses, b \in ErrorBodies}
        \cup {[k |-> "error", status |-> 0, message |-> S_FetchFailed]}

\* status is the HTTP status of a provider error response the fetch got (0
\* when it got none); error is the message of the exception thrown
FetchFrame(callId, ret) ==
    [callId |-> callId, ret |-> ret, data |-> Null, existing |-> FALSE,
     status |-> 0, error |-> <<>>, thrown |-> FALSE, saved |-> FALSE]

\* fetchTranscriptForCall returns `saved` or throws
FetchReturn(p, thrown, saved) ==
    /\ pc' = [pc EXCEPT ![p] = loc[p].fetch.ret]
    /\ loc' = [loc EXCEPT ![p].fetch.thrown = thrown, ![p].fetch.saved = saved]

\* a catch block that takes every provider failure for a missing transcript
FetchCatchSwallowsAll(p, status, message) ==
    /\ pc' = [pc EXCEPT ![p] = loc[p].fetch.ret]
    /\ loc' = [loc EXCEPT ![p].fetch.status = status, ![p].fetch.error = message,
                          ![p].fetch.thrown = FALSE, ![p].fetch.saved = FALSE]

\* the catch block of fetchTranscriptForCall: a message naming 404 means no
\* transcript, every other exception is rethrown
FetchCatch(p, status, message) ==
    /\ pc' = [pc EXCEPT ![p] = loc[p].fetch.ret]
    /\ loc' = [loc EXCEPT ![p].fetch.status = status, ![p].fetch.error = message,
                          ![p].fetch.thrown = ~Includes(message, S_404),
                          ![p].fetch.saved = FALSE]

\* the request to the provider and the transcript row built from its answer
FetchTranscript(p) ==
    /\ pc[p] = "f_fetch"
    /\ log' = [log EXCEPT ![p] = Append(@, "fetch")]
    /\ \E ans \in TranscriptAnswers :
        IF ans.k = "error" THEN FetchCatch(p, ans.status, ans.message)
        ELSE IF ans.k = "nodialogue" THEN FetchReturn(p, FALSE, FALSE)
        ELSE /\ pc' = [pc EXCEPT ![p] = "f_select"]
             /\ loc' = [loc EXCEPT ![p].fetch.data =
                          FetchedTranscriptData(loc[p].fetch.callId, ans.dialogue,
                                                Num(45), Sym("completed"))]
    /\ UNCHANGED <<calls, transcripts, analyses, health, env, an, probe, verdict, sched>>

\* the lookup of a stored transcript
FetchSelectTranscript(p) ==
    /\ pc[p] = "f_select"
    /\ log' = [log EXCEPT ![p] = Append(@, "txSelect")]
    /\ \E ok \in DbResults :
        IF ~ok \/ BindRejected(loc[p].fetch.callId)
        THEN FetchCatch(p, 0, S_DbError)
        ELSE /\ pc' = [pc EXCEPT ![p] = "f_write"]
             /\ loc' = [loc EXCEPT ![p].fetch.existing =
                          RowCount(transcripts, loc[p].fetch.callId) > 0]
    /\ UNCHANGED <<calls, transcripts, analyses, health, env, an, probe, verdict, sched>>

\* update the stored transcript or insert a new one
FetchWriteTranscript(p) ==
    /\ pc[p] = "f_write"
    /\ log' = [log EXCEPT ![p] = Append(@, "txWrite")]
    /\ \E ok \in DbResults :
        LET f == loc[p].fetch
        IN  IF ~ok \/ (~f.existing /\ TranscriptInsertRejected(transcripts, f.data))
            THEN /\ FetchCatch(p, 0, S_DbError)
                 /\ UNCHANGED transcripts
            ELSE /\ transcripts' = IF f.existing
                                   THEN UpdateWhere(transcripts, f.callId, f.data)
                                   ELSE InsertTranscript(transcripts, f.data)
                 /\ FetchReturn(p, FALSE, TRUE)
    /\ UNCHANGED <<calls, analyses, health, env, an, probe, verdict, sched>>

-----------------------------------------------------------------------------
(* The webhook handler, POST /webhooks/openphone/calls.  Every action is    *)
(* the completion of one awaited operation and the code up to the next.     *)

\* the options the automatic dispatches hand to analyzeCall
AutoOptions(callId, phoneNumberId) ==
    [callId |-> callId, transcriptText |-> Undef, callDirection |-> Undef,
     phoneNumberId |-> phoneNumberId]

\* an outer catch block that only logs
WebhookCatchSilent(w, l, events) ==
    /\ log' = [log EXCEPT ![w] = @ \o events]
    /\ loc' = [loc EXCEPT ![w] = [l EXCEPT !.response = "error"]]
    /\ pc' = [pc EXCEPT ![w] = "done"]

\* the handler's outer catch block answers 200 with an error body
WebhookCatch(w, l, events) ==
    /\ log' = [log EXCEPT ![w] = @ \o events \o <<"res200">>]
    /\ loc' = [loc EXCEPT ![w] = [l EXCEPT !.response = "error"]]
    /\ pc' = [pc EXCEPT ![w] = "done"]

\* a handler that answers an event of another type and processes it all the
\* same
WebhookIgnoreThenProcess(w, l, events) ==
    /\ log' = [log EXCEPT ![w] = @ \o events \o <<"res200">>]
    /\ loc' = [loc EXCEPT ![w] = [l EXCEPT !.response = "ignored", !.shouldAnalyze = TRUE,
                                           !.type = Sym("call.completed"),
                                           !.callId = Sym("c1")]]
    /\ pc' = [pc EXCEPT ![w] = "w_timer"]

\* an event of another type is acknowledged and not processed
WebhookIgnore(w, l, events) ==
    /\ log' = [log EXCEPT ![w] = @ \o events \o <<"res200">>]
    /\ loc' = [loc EXCEPT ![w] = [l EXCEPT !.response = "ignored"]]
    /\ pc' = [pc EXCEPT ![w] = "done"]

\* a handler that leaves the acknowledgment to the work that follows
WebhookRespondLater(w, l, events) ==
    /\ log' = [log EXCEPT ![w] = @ \o events]
    /\ loc' = [loc EXCEPT ![w] = l]
    /\ pc' = [pc EXCEPT ![w] =
                IF LengthPositive(l.dialogue) THEN "w_tx_select"
                ELSE IF l.shouldAnalyze /\ IsCallCompleted(l.type) THEN "w_timer"
                ELSE "done"]

\* after the call upsert (done or failed): answer 200, then go on to the
\* embedded dialogue, or set the timer of the delayed fetch, or stop
WebhookRespond(w, l, events) ==
    /\ log' = [log EXCEPT ![w] = @ \o events \o <<"res200">>]
    /\ loc' = [loc EXCEPT ![w] = [l EXCEPT !.response = "processed"]]
    /\ pc' = [pc EXCEPT ![w] =
                IF LengthPositive(l.dialogue) THEN "w_tx_select"
                ELSE IF l.shouldAnalyze /\ IsCallCompleted(l.type) THEN "w_timer"
                ELSE "done"]

\* the health record, then the event type check, the extraction and the
\* routing decision
WebhookHealth(w) ==
    /\ pc[w] = "w_health"
    /\ \E ok \in DbResults : health' = IF ok THEN health + 1 ELSE health
    /\ LET type == Field(loc[w].body, "type")
           data == Field(loc[w].body, "data")
           x == WebhookExtract(loc[w], type, data, env)
       IN  IF ~IsCallCompleted(type) /\ ~IsTranscriptCompleted(type)
           THEN WebhookIgnore(w, loc[w], <<>>)
           ELSE IF x.thrown
           THEN WebhookCatch(w, loc[w], <<>>)
           ELSE /\ pc' = [pc EXCEPT ![w] = "w_select"]
                /\ loc' = [loc EXCEPT ![w] = x.l]
                /\ UNCHANGED log
    /\ UNCHANGED <<calls, transcripts, analyses, env, an, probe, verdict, sched>>

\* the lookup of the stored call; a failure is caught and processing goes on
WebhookSelectCall(w) ==
    /\ pc[w] = "w_select"
    /\ \E ok \in DbResults :
        IF ~ok \/ BindRejected(loc[w].callId)
        THEN WebhookRespond(w, [loc[w] EXCEPT !.wrote = "failed"], <<"callSelect">>)
        ELSE /\ pc' = [pc EXCEPT ![w] = "w_write"]
             /\ loc' = [loc EXCEPT ![w].selected = TRUE,
                                   ![w].existing = SelectByCallId(calls, loc[w].callId)]
             /\ log' = [log EXCEPT ![w] = Append(@, "callSelect")]
    /\ UNCHANGED <<calls, transcripts, analyses, health, env, an, probe, verdict, sched>>

\* update the stored call or insert a new one; a failure is caught
WebhookWriteCall(w) ==
    /\ pc[w] = "w_write"
    /\ \E ok \in DbResults :
        LET l == loc[w]
            row == WebhookCallRecord(l)
        IN  IF ~ok
            THEN /\ UNCHANGED calls
                 /\ WebhookRespond(w, [l EXCEPT !.wrote = "failed"], <<"callWrite">>)
            ELSE IF l.existing # <<>>
            THEN /\ calls' = UpdateWhere(calls, l.callId, WebhookCallUpdate(l, l.existing[1]))
                 /\ WebhookRespond(w, [l EXCEPT !.wrote = "updated"], <<"callWrite">>)
            ELSE IF CallInsertRejected(calls, row)
            THEN /\ UNCHANGED calls
                 /\ WebhookRespond(w, [l EXCEPT !.wrote = "rejected"], <<"callWrite">>)
            ELSE /\ calls' = InsertCall(calls, row)
                 /\ WebhookRespond(w, [l EXCEPT !.wrote = "inserted"], <<"callWrite">>)
    /\ UNCHANGED <<transcripts, analyses, health, env, an, probe, verdict, sched>>

\* the embedded dialogue: keep the valid items, build the transcript row,
\* look the stored transcript up; a failure ends the processing
WebhookSelectTranscript(w) ==
    /\ pc[w] = "w_tx_select"
    /\ LET l == loc[w]
       IN  IF ~IsArray(l.dialogue)
           THEN pc' = [pc EXCEPT ![w] = "done"] /\ UNCHANGED <<loc, log>>
           ELSE IF ValidDialogue(l.dialogue.a) = <<>>
           THEN pc' = [pc EXCEPT ![w] = "done"] /\ UNCHANGED <<loc, log>>
           ELSE \E ok \in DbResults :
                /\ log' = [log EXCEPT ![w] = Append(@, "txSelect")]
                /\ IF ~ok \/ BindRejected(l.callId)
                   THEN pc' = [pc EXCEPT ![w] = "done"] /\ UNCHANGED loc
                   ELSE /\ pc' = [pc EXCEPT ![w] = "w_tx_write"]
                        /\ loc' = [loc EXCEPT ![w].fetch =
                              [FetchFrame(l.callId, "") EXCEPT
                                  !.data = WebhookTranscriptData(l.callId,
                                              ValidDialogue(l.dialogue.a), l.duration, l.status),
                                  !.existing = RowCount(transcripts, l.callId) > 0]]
    /\ UNCHANGED <<calls, transcripts, analyses, health, env, an, probe, verdict, sched>>

\* a process calls analyzeCall and waits for it at `ret`
CallAnalyze(p, options, ret) ==
    /\ pc' = [pc EXCEPT ![p] = "a_call"]
    /\ an' = [an EXCEPT ![p] = AnalyzeFrame(options, ret, analyses)]

\* update or insert the transcript, then dispatch the analysis if the call
\* qualifies
WebhookWriteTranscript(w) ==
    /\ pc[w] = "w_tx_write"
    /\ \E ok \in DbResults :
        LET l == loc[w]
            f == l.fetch
        IN  IF ~ok \/ (~f.existing /\ TranscriptInsertRejected(transcripts, f.data))
            THEN /\ pc' = [pc EXCEPT ![w] = "done"]
                 /\ log' = [log EXCEPT ![w] = Append(@, "txWrite")]
                 /\ UNCHANGED <<transcripts, an, loc>>
            ELSE /\ transcripts' = IF f.existing
                                   THEN UpdateWhere(transcripts, l.callId, f.data)
                                   ELSE InsertTranscript(transcripts, f.data)
                 /\ loc' = [loc EXCEPT ![w].saved = TRUE]
                 /\ IF l.shouldAnalyze
                    THEN /\ CallAnalyze(w, AutoOptions(l.callId, l.phoneNumberId), "w_analyzed")
                         /\ log' = [log EXCEPT ![w] = @ \o <<"txWrite", "analyze">>]
                    ELSE /\ pc' = [pc EXCEPT ![w] = "done"]
                         /\ log' = [log EXCEPT ![w] = Append(@, "txWrite")]
                         /\ UNCHANGED an
    /\ UNCHANGED <<calls, analyses, health, env, probe, verdict, sched>>

\* the timer of the delayed fetch fires: fetchTranscriptForCall(callId)
WebhookTimer(w) ==
    /\ pc[w] = "w_timer"
    /\ pc' = [pc EXCEPT ![w] = "f_fetch"]
    /\ loc' = [loc EXCEPT ![w].fetch = FetchFrame(loc[w].callId, "w_fetched")]
    /\ UNCHANGED <<calls, transcripts, analyses, health, env, an, log, probe, verdict, sched>>

\* a handler that fetches again until a transcript is there
WebhookFetchedRetry(w) ==
    /\ pc[w] = "w_fetched"
    /\ IF ~loc[w].fetch.thrown /\ loc[w].fetch.saved
       THEN /\ CallAnalyze(w, AutoOptions(loc[w].callId, loc[w].phoneNumberId), "w_analyzed")
            /\ log' = [log EXCEPT ![w] = Append(@, "analyze")]
       ELSE /\ pc' = [pc EXCEPT ![w] = "w_timer"]
            /\ UNCHANGED <<an, log>>
    /\ UNCHANGED <<calls, transcripts, analyses, health, env, loc, probe, verdict, sched>>

\* the delayed fetch came back: dispatch the analysis if a transcript was
\* saved; a failure of the fetch is logged
WebhookFetched(w) ==
    /\ pc[w] = "w_fetched"
    /\ IF ~loc[w].fetch.thrown /\ loc[w].fetch.saved
       THEN /\ CallAnalyze(w, AutoOptions(loc[w].callId, loc[w].phoneNumberId), "w_analyzed")
            /\ log' = [log EXCEPT ![w] = Append(@, "analyze")]
       ELSE /\ pc' = [pc EXCEPT ![w] = "done"]
            /\ UNCHANGED <<an, log>>
    /\ UNCHANGED <<calls, transcripts, analyses, health, env, loc, probe, verdict, sched>>

\* analyzeCall came back; its result is logged
WebhookAnalyzed(w) ==
    /\ pc[w] = "w_analyzed"
    /\ pc' = [pc EXCEPT ![w] = "done"]
    /\ UNCHANGED <<calls, transcripts, analyses, health, env, loc, an, log, probe, verdict, sched>>

-----------------------------------------------------------------------------
(* The poll pipeline: syncCalls and upsertCall (server/sync.ts).  A call of *)
(* the provider is an object [id, direction, duration, status,              *)
(* phoneNumberId, from, to, participants, completedAt].                     *)

\* upsertCall reads call.participants[0] when call.from is empty
PollCallDataThrows(call) ==
    /\ Throws(Field(call, "participants"))
    /\ ~Truthy(Field(call, "from")) \/ ~Truthy(Field(call, "to"))

\* callData, the row upsertCall writes
PollCallData(call) ==
    [callId |-> Field(call, "id"), direction |-> Field(call, "direction"),
     fromNumber |-> Or(Or(Field(call, "from"),
                          OptField(Elem(Field(call, "participants"), 0), "phoneNumber")),
                       Str(<<>>)),
     toNumber |-> Or(Or(Field(call, "to"),
                        OptField(Elem(Field(call, "participants"), 1), "phoneNumber")),
                     Str(<<>>)),
     duration |-> Or(Field(call, "duration"), Num(0)),
     status |-> Field(call, "status"),
     completedAt |-> DateOr(Field(call, "completedAt"), Null),
     phoneNumberId |-> Field(call, "phoneNumberId"),
     metadata |-> [t |-> "object", kind |-> "poll"]]

\* the locals of a run of syncCalls; page is what the provider will answer
\* the run's request for calls
PollLocals(options, page) ==
    [options |-> options, page |-> page, completed |-> <<>>, phase |-> "upsert", i |-> 1,
     existing |-> <<>>, selected |-> <<>>, returns |-> <<>>, toAnalyze |-> <<>>,
     fetch |-> Null,
     result |-> [success |-> TRUE, callsSynced |-> 0, transcriptsSynced |-> 0,
                 analysesTriggered |-> 0, errors |-> <<>>]]

\* the analysis loop: the next qualifying call, or the end of the run
PollNextAnalysis(l) ==
    IF l.i <= Len(l.toAnalyze) THEN [pc |-> "a_call", l |-> l]
    ELSE [pc |-> "done", l |-> l]

\* the transcript loop: the next completed call, or on to the analysis loop
\* over the calls filterCallsForAnalysis keeps (none when autoAnalyze is false)
PollNextTranscript(l, e) ==
    IF l.i <= Len(l.completed)
    THEN [pc |-> "f_fetch",
          l |-> [l EXCEPT !.fetch = FetchFrame(Field(l.completed[l.i], "id"), "p_fetched")]]
    ELSE PollNextAnalysis(
            [l EXCEPT !.phase = "analysis", !.i = 1,
                      !.toAnalyze =
                          IF l.options.autoAnalyze # Bool(FALSE)
                          THEN FilterCallsForAnalysis(l.completed, l.options.phoneNumberId, e)
                          ELSE <<>>])

\* the upsert loop: the next completed call, or on to the transcript loop
PollNextUpsert(l, e) ==
    IF l.i <= Len(l.completed) THEN [pc |-> "p_select", l |-> l]
    ELSE PollNextTranscript([l EXCEPT !.phase = "transcript", !.i = 1], e)

\* a run that dispatches the analyses before it fetches the transcripts
PollContinueAnalysisFirst(l, e) ==
    LET analysis == [l EXCEPT !.phase = "analysis", !.i = 1,
                              !.toAnalyze = FilterCallsForAnalysis(l.completed,
                                                l.options.phoneNumberId, e)]
        transcript == [l EXCEPT !.phase = "transcript", !.i = 1]
        fetchNext(m) ==
            IF m.i <= Len(m.completed)
            THEN [pc |-> "f_fetch",
                  l |-> [m EXCEPT !.fetch = FetchFrame(Field(m.completed[m.i], "id"),
                                                       "p_fetched")]]
            ELSE [pc |-> "done", l |-> m]
        analyzeNext(m) ==
            IF m.i <= Len(m.toAnalyze) THEN [pc |-> "a_call", l |-> m]
            ELSE fetchNext(transcript)
    IN  CASE l.phase = "upsert" ->
                IF l.i <= Len(l.completed) THEN [pc |-> "p_select", l |-> l]
                ELSE analyzeNext(analysis)
          [] l.phase = "analysis" -> analyzeNext(l)
          [] OTHER -> fetchNext(l)

\* where a run goes on after a step of one of its loops
PollContinue(l, e) ==
    CASE l.phase = "upsert" -> PollNextUpsert(l, e)
      [] l.phase = "transcript" -> PollNextTranscript(l, e)
      [] OTHER -> PollNextAnalysis(l)

\* the run goes on with locals l, having logged `events`
PollGo(p, l, events) ==
    LET n == PollContinue(l, env)
    IN  /\ pc' = [pc EXCEPT ![p] = n.pc]
        /\ loc' = [loc EXCEPT ![p] = n.l]
        /\ IF n.pc = "a_call"
           THEN /\ an' = [an EXCEPT ![p] =
                            AnalyzeFrame(AutoOptions(Field(n.l.toAnalyze[n.l.i], "id"),
                                                     n.l.options.phoneNumberId),
                                         "p_analyzed", analyses)]
                /\ log' = [log EXCEPT ![p] = @ \o events \o <<"analyze">>]
           ELSE /\ an' = an
                /\ log' = [log EXCEPT ![p] = @ \o events]

\* the calls of one page as the provider returns them, or a failed request
CallPage(callList) == [k |-> "ok", data |-> callList]
FailedPage == [k |-> "error", data |-> <<>>]

\* the outer catch block of syncCalls: the run ends, failed, with the message
\* in its error list
PollCatch(p, message, events) ==
    /\ pc' = [pc EXCEPT ![p] = "done"]
    /\ loc' = [loc EXCEPT ![p].result.success = FALSE,
                          ![p].result.errors = Append(@, message)]
    /\ log' = [log EXCEPT ![p] = @ \o events]
    /\ an' = an

\* a run that keeps every fetched call, whatever its status
PollFetchCallsUnfiltered(p) ==
    /\ pc[p] = "p_fetch"
    /\ PollGo(p, [loc[p] EXCEPT !.completed = loc[p].page.data,
                                !.result.success = loc[p].page.k # "error"],
              <<"fetchCalls">>)
    /\ UNCHANGED <<calls, transcripts, analyses, health, env, probe, verdict, sched>>

\* syncCalls gets the store handle, fetches the calls, keeps the completed
\* ones and starts its loops
PollFetchCalls(p) ==
    /\ pc[p] = "p_fetch"
    /\ \E handle \in DbResults :
        LET page == loc[p].page
            errors == IF page.k = "error" THEN <<"Failed to fetch calls">>
                      ELSE IF page.data = <<>> THEN <<"No calls found">>
                      ELSE <<>>
        IN  IF ~handle
            THEN PollCatch(p, "Database not available", <<>>)
            ELSE PollGo(p, [loc[p] EXCEPT
                              !.completed =
                                  SelectSeq(page.data,
                                            LAMBDA c : Field(c, "status") = Sym("completed")),
                              !.result.success = page.k # "error",
                              !.result.errors = errors],
                        <<"fetchCalls">>)
    /\ UNCHANGED <<calls, transcripts, analyses, health, env, probe, verdict, sched>>

-----------------------------------------------------------------------------
(* The page loop of syncCalls, one request at a time.  The provider holds   *)
(* the calls of the period as a book of pages; the response to a request is *)
(* the page its pageToken names (the first page without one) together with  *)
(* the token of the page after it, if there is one.                         *)

\* a provider request succeeds or throws
RequestResults == {TRUE, FALSE}

S_page == <<"p","a","g","e">>

\* the opaque token that names page k of the book
PageToken(k) == Str(S_page \o Decimal(k))

\* the page a request with this pageToken parameter asks for
PageOf(book, token) ==
    IF token = Undef THEN 1 ELSE CHOOSE k \in 1..Len(book) : PageToken(k) = token

\* the response body: { data, nextPageToken }
ProviderPage(book, k) ==
    [data |-> book[k],
     nextPageToken |-> IF k < Len(book) THEN PageToken(k + 1) ELSE Undef]

\* the locals of a paged run: the provider's book, the pageToken variable, the
\* pageToken parameter of every request made so far
PagedLocals(options, book) ==
    PollLocals(options, CallPage(<<>>))
        @@ [book |-> book, pageToken |-> Undef, requests |-> <<>>]

\* syncCalls gets the store handle before the first request
PollOpen(p) ==
    /\ pc[p] = "p_open"
    /\ \E handle \in DbResults :
        IF ~handle
        THEN PollCatch(p, "Database not available", <<>>)
        ELSE /\ pc' = [pc EXCEPT ![p] = "p_page"]
             /\ UNCHANGED <<loc, an, log>>
    /\ UNCHANGED <<calls, transcripts, analyses, health, env, probe, verdict, sched>>

\* after the page loop: the "no calls" check and the completed filter, then
\* the loops
PollPagesDone(p, l) ==
    LET errors == IF l.page.k = "error" THEN <<"Failed to fetch calls">>
                  ELSE IF l.page.data = <<>> THEN <<"No calls found">>
                  ELSE <<>>
    IN  PollGo(p, [l EXCEPT
                     !.completed =
                         SelectSeq(l.page.data,
                                   LAMBDA c : Field(c, "status") = Sym("completed")),
                     !.result.success = l.page.k # "error",
                     !.result.errors = errors],
               <<"fetchCalls">>)

\* a page loop that sends every request without a pageToken
PollFetchPageNoToken(p) ==
    /\ pc[p] = "p_page"
    /\ \E ok \in RequestResults :
        LET l == loc[p]
            sent == [l EXCEPT !.requests = Append(@, Undef)]
        IN  IF ~ok
            THEN PollPagesDone(p, [sent EXCEPT !.page.k = "error"])
            ELSE LET response == ProviderPage(l.book, 1)
                     got == [sent EXCEPT !.page.data = @ \o response.data,
                                         !.pageToken = response.nextPageToken]
                 IN  IF Truthy(got.pageToken) /\ Len(got.requests) < Len(l.book)
                     THEN /\ loc' = [loc EXCEPT ![p] = got]
                          /\ log' = [log EXCEPT ![p] = Append(@, "fetchCalls")]
                          /\ UNCHANGED <<pc, an>>
                     ELSE PollPagesDone(p, got)
    /\ UNCHANGED <<calls, transcripts, analyses, health, env, probe, verdict, sched>>

\* a page loop that stops after its first response, token or not
PollFetchPageOnce(p) ==
    /\ pc[p] = "p_page"
    /\ \E ok \in RequestResults :
        LET l == loc[p]
            request == IF Truthy(l.pageToken) THEN l.pageToken ELSE Undef
            sent == [l EXCEPT !.requests = Append(@, request)]
        IN  IF ~ok
            THEN PollPagesDone(p, [sent EXCEPT !.page.k = "error"])
            ELSE LET response == ProviderPage(l.book, PageOf(l.book, request))
                 IN  PollPagesDone(p, [sent EXCEPT !.page.data = @ \o response.data,
                                                   !.pageToken = response.nextPageToken])
    /\ UNCHANGED <<calls, transcripts, analyses, health, env, probe, verdict, sched>>

\* one pass of the do-while loop: request a page with the current pageToken;
\* a response is accumulated and its nextPageToken kept, the loop goes on
\* while there is one; an error is recorded and ends the loop
PollFetchPage(p) ==
    /\ pc[p] = "p_page"
    /\ \E ok \in RequestResults :
        LET l == loc[p]
            request == IF Truthy(l.pageToken) THEN l.pageToken ELSE Undef
            sent == [l EXCEPT !.requests = Append(@, request)]
        IN  IF ~ok
            THEN PollPagesDone(p, [sent EXCEPT !.page.k = "error"])
            ELSE LET response == ProviderPage(l.book, PageOf(l.book, request))
                     got == [sent EXCEPT !.page.data = @ \o response.data,
                                         !.pageToken = response.nextPageToken]
                 IN  IF Truthy(got.pageToken)
                     THEN /\ loc' = [loc EXCEPT ![p] = got]
                          /\ log' = [log EXCEPT ![p] = Append(@, "fetchCalls")]
                          /\ UNCHANGED <<pc, an>>
                     ELSE PollPagesDone(p, got)
    /\ UNCHANGED <<calls, transcripts, analyses, health, env, probe, verdict, sched>>

\* upsertCall threw: the loop records the failure and goes on
PollCallFailed(p, events) ==
    PollGo(p, [loc[p] EXCEPT !.returns = Append(@, "thrown"),
                             !.selected = Append(@, loc[p].existing),
                             !.result.errors = Append(@, "Failed to save call"),
                             !.i = @ + 1],
           events)

\* an upsertCall that reports every save as an insert
PollCallSavedAsInsert(p, updated, events) ==
    PollGo(p, [loc[p] EXCEPT !.returns = Append(@, "inserted"),
                             !.selected = Append(@, loc[p].existing),
                             !.result.callsSynced = @ + 1,
                             !.i = @ + 1],
           events)

\* upsertCall returned: true for an update, false for an insert
PollCallSaved(p, updated, events) ==
    PollGo(p, [loc[p] EXCEPT !.returns = Append(@, IF updated THEN "updated" ELSE "inserted"),
                             !.selected = Append(@, loc[p].existing),
                             !.result.callsSynced = @ + 1,
                             !.i = @ + 1],
           events)

\* upsertCall: build the row and look the stored call up
PollSelectCall(p) ==
    /\ pc[p] = "p_select"
    /\ LET call == loc[p].completed[loc[p].i]
       IN  IF PollCallDataThrows(call)
           THEN PollCallFailed(p, <<>>)
           ELSE \E ok \in DbResults :
                IF ~ok \/ BindRejected(Field(call, "id"))
                THEN PollCallFailed(p, <<"callSelect">>)
                ELSE /\ pc' = [pc EXCEPT ![p] = "p_write"]
                     /\ loc' = [loc EXCEPT ![p].existing =
                                   <<SelectByCallId(calls, Field(call, "id"))>>]
                     /\ log' = [log EXCEPT ![p] = Append(@, "callSelect")]
                     /\ an' = an
    /\ UNCHANGED <<calls, transcripts, analyses, health, env, probe, verdict, sched>>

\* upsertCall: update the stored call or insert a new one
PollWriteCall(p) ==
    /\ pc[p] = "p_write"
    /\ \E ok \in DbResults :
        LET call == loc[p].completed[loc[p].i]
            row == PollCallData(call)
            found == loc[p].existing[1]
        IN  IF ~ok \/ (found = <<>> /\ CallInsertRejected(calls, row))
            THEN /\ UNCHANGED calls
                 /\ PollCallFailed(p, <<"callWrite">>)
            ELSE IF found # <<>>
            THEN /\ calls' = UpdateWhere(calls, row.callId, row)
                 /\ PollCallSaved(p, TRUE, <<"callWrite">>)
            ELSE /\ calls' = InsertCall(calls, row)
                 /\ PollCallSaved(p, FALSE, <<"callWrite">>)
    /\ UNCHANGED <<transcripts, analyses, health, env, probe, verdict, sched>>

\* fetchTranscriptForCall came back to the transcript loop; a failure is
\* written to the console and the loop goes on
PollFetched(p) ==
    /\ pc[p] = "p_fetched"
    /\ LET f == loc[p].fetch
       IN  PollGo(p, [loc[p] EXCEPT
                         !.result.transcriptsSynced =
                             IF ~f.thrown /\ f.saved THEN @ + 1 ELSE @,
                         !.i = @ + 1],
                  IF ~f.thrown THEN <<>>
                  ELSE IF f.status = 404 THEN <<"transcriptFailed404">>
                  ELSE <<"transcriptFailed">>)
    /\ UNCHANGED <<calls, transcripts, analyses, health, env, probe, verdict, sched>>

\* analyzeCall came back to the analysis loop; a failure is written to the
\* console and to the error list
PollAnalyzed(p) ==
    /\ pc[p] = "p_analyzed"
    /\ LET r == an[p].result
           ok == ~r.thrown /\ r.success = TRUE
       IN  PollGo(p, [loc[p] EXCEPT
                         !.result.analysesTriggered = IF ok THEN @ + 1 ELSE @,
                         !.result.errors =
                             IF ok THEN @ ELSE Append(@, "Analysis failed for call"),
                         !.i = @ + 1],
                  IF ok THEN <<>> ELSE <<"analysisFailed">>)
    /\ UNCHANGED <<calls, transcripts, analyses, health, env, probe, verdict, sched>>

-----------------------------------------------------------------------------
(* Processes and the values the environment supplies *)

WebhookProcs == {"w1", "w2"}
PollProcs == {"p1"}
DispatchProcs == {"d1"}
\* two dispatches of analyzeCall in flight for the same call
RaceProcs == {"d1", "d2"}
Procs == WebhookProcs \cup PollProcs \cup DispatchProcs \cup RaceProcs

CallIds == {Sym("c1"), Sym("c2")}
MainLine == Sym("PNmain")
OutboundLine == Sym("PNoutbound")
OtherLine == Sym("PNother")


\* the calls row the poll pipeline stores for a completed call
StoredCall(id, direction, line) ==
    [callId |-> id, direction |-> direction, fromNumber |-> Sym("+15551230000"),
     toNumber |-> Sym("+15559870000"), duration |-> Num(45), status |-> Sym("completed"),
     completedAt |-> Sym("2024-11-20T10:34:10Z"), phoneNumberId |-> line,
     metadata |-> [t |-> "object", kind |-> "poll"]]

\* an analyses row of the seed data
SeedAnalysis(id) ==
    [callId |-> id, score |-> Num(88), summary |-> Sym("seed summary"),
     sentiment |-> Sym("Positive"), complianceCheck |-> Sym("Pass"), metadata |-> Null]

\* the transcripts a dispatch can find stored: rows the two fetch paths, the
\* webhook and the historical import wrote
StoredDialogues ==
    {<<ItemAgent, ItemCaller>>, <<ItemCaller>>, <<ItemNoSpeaker>>, <<ItemBare>>,
     <<ItemBareNull>>, <<ItemBare, ItemBare>>}

StoredTranscripts(id) ==
    {TranscriptRowStored(FetchedTranscriptData(id, d, Num(45), Sym("completed")))
        : d \in StoredDialogues}
    \cup {TranscriptRowStored(WebhookTranscriptData(id, <<ItemAgent, ItemCaller>>,
                                                    Num(45), Sym("completed")))}
    \cup {TranscriptRowStored(HistoricalTranscriptData(id, <<ItemAgent>>,
                                                       Num(45), Sym("completed")))}

Environments ==
    {[main |-> MainLine, outbound |-> OutboundLine], [main |-> Undef, outbound |-> Undef]}

IdleProcs(active, label) == [p \in Procs |-> IF p \in active THEN label ELSE "off"]

-----------------------------------------------------------------------------
(* One webhook request, from its arrival to the end of its deferred work *)

Body(type, data) == [t |-> "object", type |-> type, data |-> data]

\* the call object of a call.completed event
CallEvent(id, line, direction, duration, dialogue) ==
    [t |-> "object", id |-> id, phoneNumberId |-> line, direction |-> direction,
     duration |-> duration, status |-> Sym("completed"), dialogue |-> dialogue,
     completedAt |-> Sym("2024-11-20T10:34:10Z"),
     participants |-> Arr(<<Sym("+15551230000"), Sym("+15559870000")>>)]

\* the data of a call.transcript.completed event
TranscriptEvent(id, line, direction, duration, dialogue) ==
    [t |-> "object", callId |-> id, phoneNumberId |-> line, direction |-> direction,
     duration |-> duration, dialogue |-> dialogue]

Nested(obj) == [t |-> "object", object |-> obj]

T_Completed == Sym("call.completed")
T_Transcript == Sym("call.transcript.completed")

WebhookBodies ==
    {Body(Undef, Undef),
     Body(Sym("call.ringing"), Nested(CallEvent(Sym("c1"), MainLine, Sym("incoming"), Num(45), Undef))),
     Body(T_Completed, Undef),
     Body(T_Completed, Nested(CallEvent(Sym("c1"), MainLine, Sym("incoming"), Num(45), Undef))),
     Body(T_Completed, Nested(CallEvent(Sym("c1"), MainLine, Sym("incoming"), Num(10), Undef))),
     Body(T_Completed, Nested(CallEvent(Sym("c1"), MainLine, Undef, Num(45), Undef))),
     Body(T_Completed, Nested(CallEvent(Undef, MainLine, Sym("incoming"), Num(45), Undef))),
     Body(T_Completed, CallEvent(Sym("c1"), OutboundLine, Sym("outgoing"), Undef,
                                 Arr(<<ItemAgent, ItemCaller>>))),
     Body(T_Completed, Nested(CallEvent(Sym("c1"), MainLine, Sym("incoming"), Num(45),
                                        Str(T_Hello)))),
     Body(T_Transcript, Null),
     Body(T_Transcript, Nested(TranscriptEvent(Sym("c1"), MainLine, Sym("incoming"), Num(45),
                                               Arr(<<ItemAgent, ItemCaller>>)))),
     Body(T_Transcript, Nested(TranscriptEvent(Sym("c1"), Undef, Undef, Undef,
                                               Arr(<<ItemAgent, ItemBare>>)))),
     Body(T_Transcript, Nested(TranscriptEvent(Sym("c1"), MainLine, Sym("incoming"), Num(45),
                                               Arr(<<ItemNoSpeaker, ItemBare>>)))),
     Body(T_Transcript, Nested(TranscriptEvent(Sym("c1"), MainLine, Sym("incoming"), Num(45),
                                               Arr(<<ItemNoSpeaker, ItemNoSpeaker>>)))),
     Body(T_Transcript, Nested(TranscriptEvent(Sym("c1"), MainLine, Sym("incoming"), Num(45),
                                               Str(T_Hello)))),
     Body(T_Transcript, Nested(TranscriptEvent(Sym("c1"), MainLine, Sym("incoming"), Num(45),
                                               Undef)))}

InitWebhook ==
    /\ calls \in {<<>>, <<StoredCall(Sym("c1"), Sym("incoming"), MainLine)>>}
    /\ transcripts \in {<<>>,
          <<TranscriptRowStored(FetchedTranscriptData(Sym("c1"), <<ItemCaller>>,
                                                      Num(45), Sym("completed")))>>}
    /\ analyses = <<>>
    /\ health = 0
    /\ env = [main |-> MainLine, outbound |-> OutboundLine]
    /\ pc = IdleProcs({"w1"}, "w_health")
    /\ \E body \in WebhookBodies :
          loc = [p \in Procs |-> IF p = "w1" THEN WebhookLocals(body) ELSE Null]
    /\ an = [p \in Procs |-> NoFrame]
    /\ log = [p \in Procs |-> <<>>]
    /\ probe = Null
    /\ verdict = Null
    /\ sched = Null

NextWebhook ==
    \E w \in WebhookProcs :
        \/ WebhookHealth(w)
        \/ WebhookSelectCall(w)
        \/ WebhookWriteCall(w)
        \/ WebhookSelectTranscript(w)
        \/ WebhookWriteTranscript(w)
        \/ WebhookTimer(w)
        \/ FetchTranscript(w)
        \/ FetchSelectTranscript(w)
        \/ FetchWriteTranscript(w)
        \/ WebhookFetched(w)
        \/ AnalyzeLookupCall(w)
        \/ AnalyzeLookupTranscript(w)
        \/ AnalyzeInvokeLLM(w)
        \/ AnalyzeSaveSelect(w)
        \/ AnalyzeSaveWrite(w)
        \/ AnalyzePlaceholderUpdate(w)
        \/ WebhookAnalyzed(w)

SpecWebhook == InitWebhook /\ [][NextWebhook]_vars

-----------------------------------------------------------------------------
(* The call upserts of a poll run alone, and of a poll run and two webhook  *)
(* requests at once.  The later phases of a run and of a request do not     *)
(* touch the calls table and are left out of these two specifications.      *)

MaxPollCalls == 2

\* a call as the provider lists it
PollCall(id, direction, duration, status, line) ==
    [t |-> "object", id |-> id, direction |-> direction, duration |-> duration,
     status |-> status, phoneNumberId |-> line, from |-> Sym("+15551230000"),
     to |-> Sym("+15559870000"), participants |-> Arr(<<>>),
     completedAt |-> Sym("2024-11-20T10:34:10Z")]

PollCalls ==
    {PollCall(Sym("c1"), Sym("incoming"), Num(45), Sym("completed"), MainLine),
     PollCall(Sym("c1"), Sym("incoming"), Num(50), Sym("completed"), MainLine),
     PollCall(Sym("c2"), Sym("outgoing"), Num(10), Sym("completed"), OutboundLine),
     PollCall(Sym("c2"), Sym("incoming"), Num(0), Sym("missed"), MainLine),
     PollCall(Sym("c1"), Undef, Num(45), Sym("completed"), MainLine)}

\* the lists of at most n calls
RECURSIVE CallLists(_)
CallLists(n) ==
    IF n = 0 THEN {<<>>}
    ELSE CallLists(n - 1)
         \cup {Append(l, c) : l \in {x \in CallLists(n - 1) : Len(x) = n - 1}, c \in PollCalls}

PollOptions == [phoneNumberId : {MainLine}, autoAnalyze : {Undef, Bool(FALSE)}]

InitPollUpsert ==
    /\ calls \in {<<>>, <<StoredCall(Sym("c1"), Sym("incoming"), MainLine)>>}
    /\ transcripts = <<>>
    /\ analyses = <<>>
    /\ health = 0
    /\ env = [main |-> MainLine, outbound |-> OutboundLine]
    /\ pc = IdleProcs(PollProcs, "p_fetch")
    /\ \E o \in PollOptions, page \in {CallPage(l) : l \in CallLists(MaxPollCalls)}
                                        \cup {FailedPage} :
          loc = [p \in Procs |-> IF p \in PollProcs THEN PollLocals(o, page) ELSE Null]
    /\ an = [p \in Procs |-> NoFrame]
    /\ log = [p \in Procs |-> <<>>]
    /\ probe = Null
    /\ verdict = Null
    /\ sched = Null

NextPollUpsert ==
    \E p \in PollProcs :
        \/ PollFetchCalls(p)
        \/ PollSelectCall(p)
        \/ PollWriteCall(p)

SpecPollUpsert == InitPollUpsert /\ [][NextPollUpsert]_vars

\* the events two webhook requests race with: for the same call, for a call
\* the poll run also lists, complete and partial
RaceBodies ==
    {Body(T_Completed, Nested(CallEvent(Sym("c1"), OtherLine, Sym("incoming"), Num(45), Undef))),
     Body(T_Completed, Nested(CallEvent(Sym("c2"), OtherLine, Sym("outgoing"), Num(10), Undef))),
     Body(T_Transcript, Nested(TranscriptEvent(Sym("c1"), Undef, Undef, Num(47), Undef)))}

RacePages ==
    {CallPage(<<PollCall(Sym("c1"), Sym("incoming"), Num(45), Sym("completed"), MainLine)>>),
     CallPage(<<PollCall(Sym("c2"), Sym("outgoing"), Num(10), Sym("completed"), MainLine)>>)}

InitUpsert ==
    /\ calls \in {<<>>, <<StoredCall(Sym("c1"), Sym("incoming"), MainLine)>>}
    /\ transcripts = <<>>
    /\ analyses = <<>>
    /\ health = 0
    /\ env = [main |-> MainLine, outbound |-> OutboundLine]
    /\ pc = [p \in Procs |-> IF p \in WebhookProcs THEN "w_health"
                             ELSE IF p \in PollProcs THEN "p_fetch" ELSE "off"]
    /\ \E b1 \in RaceBodies, b2 \in RaceBodies, page \in RacePages :
          loc = [p \in Procs |->
                   IF p = "w1" THEN WebhookLocals(b1)
                   ELSE IF p = "w2" THEN WebhookLocals(b2)
                   ELSE IF p \in PollProcs
                   THEN PollLocals([phoneNumberId |-> MainLine, autoAnalyze |-> Bool(FALSE)], page)
                   ELSE Null]
    /\ an = [p \in Procs |-> NoFrame]
    /\ log = [p \in Procs |-> <<>>]
    /\ probe = Null
    /\ verdict = Null
    /\ sched = Null

NextUpsert ==
    \/ \E w \in WebhookProcs :
        \/ WebhookHealth(w)
        \/ WebhookSelectCall(w)
        \/ WebhookWriteCall(w)
    \/ \E p \in PollProcs :
        \/ PollFetchCalls(p)
        \/ PollSelectCall(p)
        \/ PollWriteCall(p)

SpecUpsert == InitUpsert /\ [][NextUpsert]_vars

-----------------------------------------------------------------------------
(* A whole run of syncCalls: the page of calls, the upsert loop, the        *)
(* transcript loop and the analysis loop                                    *)

MissedCall == PollCall(Sym("c3"), Sym("incoming"), Num(0), Sym("missed"), MainLine)
MainInbound45 == PollCall(Sym("c1"), Sym("incoming"), Num(45), Sym("completed"), MainLine)
OutboundOutgoing10 ==
    PollCall(Sym("c2"), Sym("outgoing"), Num(10), Sym("completed"), OutboundLine)
MainInbound50 == PollCall(Sym("c2"), Sym("incoming"), Num(50), Sym("completed"), MainLine)

\* the pages a run is answered with: calls of two lines and a missed call, a
\* batch of two qualifying calls, no call, a failed request
PollRunPages ==
    {CallPage(<<MainInbound45, OutboundOutgoing10, MissedCall>>),
     CallPage(<<MainInbound45, MainInbound50>>),
     CallPage(<<>>),
     FailedPage}

PollRunOptions == [phoneNumberId : {MainLine, OutboundLine}, autoAnalyze : {Undef}]

InitPoll ==
    /\ calls = <<>>
    /\ transcripts = <<>>
    /\ analyses = <<>>
    /\ health = 0
    /\ env = [main |-> MainLine, outbound |-> OutboundLine]
    /\ pc = IdleProcs(PollProcs, "p_fetch")
    /\ \E o \in PollRunOptions, page \in PollRunPages :
          loc = [p \in Procs |-> IF p \in PollProcs THEN PollLocals(o, page) ELSE Null]
    /\ an = [p \in Procs |-> NoFrame]
    /\ log = [p \in Procs |-> <<>>]
    /\ probe = Null
    /\ verdict = Null
    /\ sched = Null

NextPoll ==
    \E p \in PollProcs :
        \/ PollFetchCalls(p)
        \/ PollSelectCall(p)
        \/ PollWriteCall(p)
        \/ FetchTranscript(p)
        \/ FetchSelectTranscript(p)
        \/ FetchWriteTranscript(p)
        \/ PollFetched(p)
        \/ AnalyzeLookupCall(p)
        \/ AnalyzeLookupTranscript(p)
        \/ AnalyzeInvokeLLM(p)
        \/ AnalyzeSaveSelect(p)
        \/ AnalyzeSaveWrite(p)
        \/ AnalyzePlaceholderUpdate(p)
        \/ PollAnalyzed(p)

SpecPoll == InitPoll /\ [][NextPoll]_vars

-----------------------------------------------------------------------------
(* The scheduler: the startup catch-up check, the daily cron run, and the   *)
(* sync config file that records the last run.  Time is counted in hours.   *)

\* 24 * 60 * 60 * 1000 ms
TwentyFourHours == 24

\* restarts of the process and cron firings a behaviour goes through
MaxRestarts == 2
MaxCronRuns == 1

\* hours the clock has advanced when the process starts again
Downtimes == {1, 25}

\* reading or writing the config file succeeds or throws
FileResults == {TRUE, FALSE}

\* what loadSyncConfig returns when the file is missing or unreadable; the
\* null time stamp is the falsy 0
EmptySyncConfig == [lastSyncTimestamp |-> 0, success |-> FALSE]

\* the pages the provider answers a scheduled run with: nothing completed in
\* the last 24 hours (the loops of syncCalls have nothing to do), or a failed
\* request
SchedPages == {CallPage(<<MissedCall>>), FailedPage}

\* the options performScheduledSync passes to syncCalls for a line
SchedOptions(line) == [phoneNumberId |-> line, autoAnalyze |-> Bool(TRUE)]

\* saveSyncConfig: the file holds the new config unless the write threw
SaveSyncConfig(file, config, written) == IF written THEN config ELSE file

\* performScheduledSync begins: syncCalls for the main line
SchedBegin(p, trigger, s) ==
    \E page \in SchedPages :
        /\ pc' = [pc EXCEPT ![p] = "p_fetch"]
        /\ loc' = [loc EXCEPT ![p] =
                      PollLocals(SchedOptions(Or(env.main, DefaultMainPhoneId)), page)]
        /\ log' = [log EXCEPT ![p] = <<>>]
        /\ sched' = [s EXCEPT !.trigger = trigger, !.line = "main", !.mainLine = Null]

\* checkAndRunStartupSync: load the config, compare the recorded time stamp
\* with 24 hours ago, run performScheduledSync or skip
SchedStartup(p) ==
    /\ pc[p] = "s_startup"
    /\ \E readable \in FileResults :
        LET config == IF readable THEN sched.file ELSE EmptySyncConfig
            twentyFourHoursAgo == sched.now - TwentyFourHours
            needed == \/ config.lastSyncTimestamp = 0
                      \/ config.lastSyncTimestamp < twentyFourHoursAgo
            s == [sched EXCEPT !.config = config,
                               !.decision = IF needed THEN "run" ELSE "skip"]
        IN  IF needed
            THEN SchedBegin(p, "startup", s)
            ELSE /\ pc' = [pc EXCEPT ![p] = "s_idle"]
                 /\ sched' = s
                 /\ UNCHANGED <<loc, log>>
    /\ UNCHANGED <<calls, transcripts, analyses, health, env, an, probe, verdict>>

\* performScheduledSync: the main line's run returned, syncCalls for the
\* outbound line begins
SchedMainDone(p) ==
    /\ pc[p] = "done"
    /\ sched.line = "main"
    /\ \E page \in SchedPages :
        /\ pc' = [pc EXCEPT ![p] = "p_fetch"]
        /\ loc' = [loc EXCEPT ![p] =
                      PollLocals(SchedOptions(Or(env.outbound, DefaultOutboundPhoneId)),
                                 page)]
        /\ log' = [log EXCEPT ![p] = <<>>]
        /\ sched' = [sched EXCEPT !.line = "outbound", !.mainLine = loc[p].result]
    /\ UNCHANGED <<calls, transcripts, analyses, health, env, an, probe, verdict>>

\* performScheduledSync: the outbound line's run returned; the combined
\* result and the current time are saved, and the startup check saves them
\* once more.  lastOk is the time of the last run whose combined result was a
\* success (0: none yet), whether or not the file could be written.
SchedRunDone(p) ==
    /\ pc[p] = "done"
    /\ sched.line = "outbound"
    /\ \E written, writtenAgain \in FileResults :
        LET success == sched.mainLine.success /\ loc[p].result.success
            config == [lastSyncTimestamp |-> sched.now, success |-> success]
            saved == SaveSyncConfig(sched.file, config, written)
        IN  sched' = [sched EXCEPT
                        !.line = "none",
                        !.file = IF sched.trigger = "startup"
                                 THEN SaveSyncConfig(saved, config, writtenAgain)
                                 ELSE saved,
                        !.lastRunOk = success,
                        !.lastOk = IF success THEN sched.now ELSE @]
    /\ pc' = [pc EXCEPT ![p] = "s_idle"]
    /\ UNCHANGED <<calls, transcripts, analyses, health, env, loc, an, log, probe, verdict>>

\* the cron job fires while the process is up
SchedCron(p) ==
    /\ pc[p] = "s_idle"
    /\ sched.crons < MaxCronRuns
    /\ SchedBegin(p, "cron", [sched EXCEPT !.crons = @ + 1])
    /\ UNCHANGED <<calls, transcripts, analyses, health, env, an, probe, verdict>>

\* the process stops and is started again some hours later
SchedRestart(p) ==
    /\ pc[p] = "s_idle"
    /\ sched.restarts < MaxRestarts
    /\ \E d \in Downtimes :
        sched' = [sched EXCEPT !.restarts = @ + 1, !.now = @ + d, !.decision = "",
                               !.crons = 0]
    /\ pc' = [pc EXCEPT ![p] = "s_startup"]
    /\ UNCHANGED <<calls, transcripts, analyses, health, env, loc, an, log, probe, verdict>>

InitSched ==
    /\ calls = <<>>
    /\ transcripts = <<>>
    /\ analyses = <<>>
    /\ health = 0
    /\ env = [main |-> MainLine, outbound |-> OutboundLine]
    /\ pc = IdleProcs(PollProcs, "s_startup")
    /\ loc = [p \in Procs |-> Null]
    /\ an = [p \in Procs |-> NoFrame]
    /\ log = [p \in Procs |-> <<>>]
    /\ probe = Null
    /\ verdict = Null
    /\ sched = [now |-> 1, file |-> EmptySyncConfig, config |-> EmptySyncConfig,
                decision |-> "", trigger |-> "", line |-> "none", mainLine |-> Null,
                lastRunOk |-> FALSE, lastOk |-> 0, restarts |-> 0, crons |-> 0]

NextSched ==
    \E p \in PollProcs :
        \/ SchedStartup(p)
        \/ SchedMainDone(p)
        \/ SchedRunDone(p)
        \/ SchedCron(p)
        \/ SchedRestart(p)
        \/ PollFetchCalls(p)

SpecSched == InitSched /\ [][NextSched]_vars

-----------------------------------------------------------------------------
(* Either ingestion path on its own: one webhook request, or one poll run *)

InitPaths == InitWebhook \/ InitPoll

NextPaths == NextWebhook \/ NextPoll

SpecPaths == InitPaths /\ [][NextPaths]_vars

-----------------------------------------------------------------------------
(* A poll run over a book of several pages *)

\* pages the provider's book holds at most
MaxPages == 3

\* the calls of the period, one to a page
BookCalls == <<MissedCall, MainInbound45, MissedCall, MainInbound50>>

\* the first n pages
Book(n) == [k \in 1..n |-> <<BookCalls[((k - 1) % Len(BookCalls)) + 1]>>]

\* the books: one page without a call, or up to MaxPages pages of one call
Books == {<<(<<>>)>>} \cup {Book(n) : n \in 1..MaxPages}

InitPaged ==
    /\ calls = <<>>
    /\ transcripts = <<>>
    /\ analyses = <<>>
    /\ health = 0
    /\ env = [main |-> MainLine, outbound |-> OutboundLine]
    /\ pc = IdleProcs(PollProcs, "p_open")
    /\ \E book \in Books :
          loc = [p \in Procs |->
                    IF p \in PollProcs
                    THEN PagedLocals([phoneNumberId |-> MainLine, autoAnalyze |-> Undef], book)
                    ELSE Null]
    /\ an = [p \in Procs |-> NoFrame]
    /\ log = [p \in Procs |-> <<>>]
    /\ probe = Null
    /\ verdict = Null
    /\ sched = Null

NextPaged ==
    \E p \in PollProcs :
        \/ PollOpen(p)
        \/ PollFetchPage(p)
        \/ PollSelectCall(p)
        \/ PollWriteCall(p)
        \/ FetchTranscript(p)
        \/ FetchSelectTranscript(p)
        \/ FetchWriteTranscript(p)
        \/ PollFetched(p)
        \/ AnalyzeLookupCall(p)
        \/ AnalyzeLookupTranscript(p)
        \/ AnalyzeInvokeLLM(p)
        \/ AnalyzeSaveSelect(p)
        \/ AnalyzeSaveWrite(p)
        \/ AnalyzePlaceholderUpdate(p)
        \/ PollAnalyzed(p)

SpecPaged == InitPaged /\ [][NextPaged]_vars

-----------------------------------------------------------------------------
(* The compliance verdict of the row saveAnalysisToDatabase builds, for      *)
(* answers of the scoring function with every small set of sub-checks       *)

\* sub-checks an answer carries at most
MaxChecks == 3

\* sub-check.compliant: true, false, or not there
CompliantValues == {Bool(TRUE), Bool(FALSE), Undef}

RECURSIVE CheckLists(_)
CheckLists(n) ==
    IF n = 0 THEN {<<>>}
    ELSE CheckLists(n - 1)
         \cup {Append(l, [compliant |-> c]) :
                  l \in {x \in CheckLists(n - 1) : Len(x) = n - 1}, c \in CompliantValues}

\* complianceChecks of an answer: missing, or an object of sub-checks
ProbedChecks == {Undef} \cup {Arr(l) : l \in CheckLists(MaxChecks)}

ProbedOutcomes ==
    {Undef, Sym("Appointment"), Sym("Callback Scheduled"), Sym("Not Interested"),
     Sym("Voicemail")}

ProbedBreakdowns == {Undef, Sym("Introduction"), Sym("Pitch")}

ProbedAnswers ==
    [direction : {Sym("incoming"), Sym("outgoing")},
     analysis : [score : {Num(85)}, summary : {Sym("summary")},
                 sentiment : {Sym("Positive")}, complianceChecks : ProbedChecks,
                 outcome : ProbedOutcomes, breakdownPoint : ProbedBreakdowns]]

InitVerdict ==
    /\ calls = <<>> /\ transcripts = <<>> /\ analyses = <<>> /\ health = 0
    /\ env = [main |-> MainLine, outbound |-> OutboundLine]
    /\ pc = IdleProcs({}, "off")
    /\ loc = [p \in Procs |-> Null]
    /\ an = [p \in Procs |-> NoFrame]
    /\ log = [p \in Procs |-> <<>>]
    /\ probe \in ProbedAnswers
    /\ verdict = Null
    /\ sched = Null

\* saveAnalysisToDatabase builds the row for the answer: its complianceCheck
DeriveVerdict ==
    /\ verdict = Null
    /\ verdict' = AnalysisRowStored(
                      AnalysisData(Sym("c1"), probe.analysis, MainLine, probe.direction,
                                   env)).complianceCheck
    /\ UNCHANGED <<calls, transcripts, analyses, health, env, pc, loc, an, log, probe, sched>>

NextVerdict == DeriveVerdict

SpecVerdict == InitVerdict /\ [][NextVerdict]_vars

-----------------------------------------------------------------------------
(* Dispatches of analyzeCall against a store the ingestion paths filled *)

DispatchOptions ==
    [callId : {Sym("c1")},
     transcriptText : {Undef, Str(T_Thanks), Str(T_Blank)},
     callDirection : {Undef, Sym("outgoing")},
     phoneNumberId : {Undef, MainLine}]

InitAnalyze ==
    /\ calls \in {<<>>, <<StoredCall(Sym("c1"), Sym("incoming"), MainLine)>>}
    /\ transcripts \in {<<>>} \cup {<<t>> : t \in StoredTranscripts(Sym("c1"))}
    /\ analyses \in {<<>>, <<SeedAnalysis(Sym("c1"))>>}
    /\ health = 0
    /\ env = [main |-> MainLine, outbound |-> OutboundLine]
    /\ pc = IdleProcs(DispatchProcs, "d_idle")
    /\ loc \in [Procs -> {Null}
                  \cup [options : DispatchOptions, result : {Null}]]
    /\ \A p \in Procs : (loc[p] = Null) <=> (p \notin DispatchProcs)
    /\ an = [p \in Procs |-> NoFrame]
    /\ log = [p \in Procs |-> <<>>]
    /\ probe = Null
    /\ verdict = Null
    /\ sched = Null

NextAnalyze ==
    \E d \in DispatchProcs :
        \/ DispatchCall(d)
        \/ AnalyzeLookupCall(d)
        \/ AnalyzeLookupTranscript(d)
        \/ AnalyzeInvokeLLM(d)
        \/ AnalyzeSaveSelect(d)
        \/ AnalyzeSaveWrite(d)
        \/ AnalyzePlaceholderUpdate(d)
        \/ DispatchReturn(d)

SpecAnalyze == InitAnalyze /\ [][NextAnalyze]_vars

-----------------------------------------------------------------------------
(* Two dispatches for the same call, their store operations interleaved:    *)
(* an automatic one (poll or webhook: call id and line) and a re-run        *)
(* through the API router (call id and, optionally, the text)               *)

RaceOptions ==
    [callId : {Sym("c1")},
     transcriptText : {Undef, Str(T_Blank)},
     callDirection : {Undef},
     phoneNumberId : {Undef, MainLine}]

\* the transcript of the call, as the webhook or the historical import stored it
RaceTranscripts ==
    {WebhookTranscriptData(Sym("c1"), <<ItemAgent, ItemCaller>>, Num(45), Sym("completed")),
     HistoricalTranscriptData(Sym("c1"), <<ItemAgent>>, Num(45), Sym("completed"))}

InitRace ==
    /\ calls = <<StoredCall(Sym("c1"), Sym("incoming"), MainLine)>>
    /\ transcripts \in {<<TranscriptRowStored(t)>> : t \in RaceTranscripts}
    /\ analyses \in {<<>>, <<SeedAnalysis(Sym("c1"))>>}
    /\ health = 0
    /\ env = [main |-> MainLine, outbound |-> OutboundLine]
    /\ pc = IdleProcs(RaceProcs, "d_idle")
    /\ loc \in [Procs -> {Null}
                  \cup [options : RaceOptions, result : {Null}]]
    /\ \A p \in Procs : (loc[p] = Null) <=> (p \notin RaceProcs)
    /\ an = [p \in Procs |-> NoFrame]
    /\ log = [p \in Procs |-> <<>>]
    /\ probe = Null
    /\ verdict = Null
    /\ sched = Null

NextRace ==
    \E d \in RaceProcs :
        \/ DispatchCall(d)
        \/ AnalyzeLookupCall(d)
        \/ AnalyzeLookupTranscript(d)
        \/ AnalyzeInvokeLLM(d)
        \/ AnalyzeSaveSelect(d)
        \/ AnalyzeSaveWrite(d)
        \/ AnalyzePlaceholderUpdate(d)
        \/ DispatchReturn(d)

SpecRace == InitRace /\ [][NextRace]_vars

-----------------------------------------------------------------------------
(* The two routing decisions applied to the same call *)

RoutingLines ==
    {Undef, MainLine, OutboundLine, OtherLine, DefaultMainPhoneId, DefaultOutboundPhoneId}

RoutingDurations ==
    {Undef, Num(0), Num(MinMainDuration), Num(MinMainDuration + 1), Num(1000)}

ProbedCalls ==
    [line : RoutingLines, direction : {Sym("incoming"), Sym("outgoing")},
     duration : RoutingDurations]

InitRouting ==
    /\ calls = <<>> /\ transcripts = <<>> /\ analyses = <<>> /\ health = 0
    /\ env \in Environments
    /\ pc = IdleProcs({}, "off")
    /\ loc = [p \in Procs |-> Null]
    /\ an = [p \in Procs |-> NoFrame]
    /\ log = [p \in Procs |-> <<>>]
    /\ probe \in ProbedCalls
    /\ verdict = [poll |-> Null, webhook |-> Null]
    /\ sched = Null

\* a poll run for the probed line lists the call: does the filter keep it
RoutePoll ==
    /\ verdict.poll = Null
    /\ LET call == PollCall(Sym("c1"), probe.direction, probe.duration,
                            Sym("completed"), probe.line)
       IN  verdict' = [verdict EXCEPT
                          !.poll = Bool(FilterCallsForAnalysis(<<call>>, probe.line, env) # <<>>)]
    /\ UNCHANGED <<calls, transcripts, analyses, health, env, pc, loc, an, log, probe, sched>>

\* a call.completed event carries the call: what does the handler decide
RouteWebhook ==
    /\ verdict.webhook = Null
    /\ LET data == Nested(CallEvent(Sym("c1"), probe.line, probe.direction,
                                    probe.duration, Undef))
           x == WebhookExtract(WebhookLocals(Body(T_Completed, data)), T_Completed, data, env)
       IN  verdict' = [verdict EXCEPT !.webhook = Bool(x.l.shouldAnalyze)]
    /\ UNCHANGED <<calls, transcripts, analyses, health, env, pc, loc, an, log, probe, sched>>

NextRouting == RoutePoll \/ RouteWebhook

SpecRouting == InitRouting /\ [][NextRouting]_vars

-----------------------------------------------------------------------------
(* A fetched dialogue, stored by one of the ingestion paths and classified  *)
(* by the dispatcher's content check                                        *)

MaxDialogue == 3

IngestItems == {ItemAgent, ItemBare, ItemBareNull}

\* the non-empty dialogues of at most n items
RECURSIVE Dialogues(_)
Dialogues(n) ==
    IF n = 0 THEN {}
    ELSE Dialogues(n - 1)
         \cup {<<d>> : d \in {x \in IngestItems : n = 1}}
         \cup {Append(l, d) : l \in {x \in Dialogues(n - 1) : Len(x) = n - 1},
                              d \in IngestItems}

IngestPaths == {"poll", "webhookFetch", "historical"}

InitIngest ==
    /\ calls = <<>> /\ transcripts = <<>> /\ analyses = <<>> /\ health = 0
    /\ env = [main |-> MainLine, outbound |-> OutboundLine]
    /\ pc = IdleProcs({}, "off")
    /\ loc = [p \in Procs |-> Null]
    /\ an = [p \in Procs |-> NoFrame]
    /\ log = [p \in Procs |-> <<>>]
    /\ probe \in [path : IngestPaths, dialogue : Dialogues(MaxDialogue)]
    /\ verdict = Null
    /\ sched = Null

\* the provider answered with probe.dialogue and the path stored the row
Ingested(row) ==
    /\ transcripts = <<>>
    /\ transcripts' = InsertTranscript(transcripts, row)
    /\ UNCHANGED <<calls, analyses, health, env, pc, loc, an, log, probe, verdict, sched>>

\* fetchTranscriptForCall of the poll pipeline
IngestPoll ==
    /\ probe.path = "poll"
    /\ Ingested(FetchedTranscriptData(Sym("c1"), probe.dialogue, Num(45), Sym("completed")))

\* fetchTranscriptForCall of the webhook module, after the delay
IngestWebhookFetch ==
    /\ probe.path = "webhookFetch"
    /\ Ingested(FetchedTranscriptData(Sym("c1"), probe.dialogue, Num(45), Sym("completed")))

\* importHistoricalCalls
IngestHistorical ==
    /\ probe.path = "historical"
    /\ Ingested(HistoricalTranscriptData(Sym("c1"), probe.dialogue, Num(45), Sym("completed")))

\* analyzeCall looks the transcript up and checks its content
ClassifyStored ==
    /\ transcripts # <<>>
    /\ verdict = Null
    /\ verdict' = [class |-> Classify(Or(transcripts[1].fullText, Str(<<>>)), transcripts[1])]
    /\ UNCHANGED <<calls, transcripts, analyses, health, env, pc, loc, an, log, probe, sched>>

NextIngest == IngestPoll \/ IngestWebhookFetch \/ IngestHistorical \/ ClassifyStored

SpecIngest == InitIngest /\ [][NextIngest]_vars

-----------------------------------------------------------------------------
(* Properties of the call upserts, checked under SpecUpsert and            *)
(* SpecPollUpsert                                                           *)

Logged(p, event) == \E i \in DOMAIN log[p] : log[p][i] = event

\* C1: however the call upserts of a poll run and of webhook requests
\* interleave at their awaited store operations (two webhook events for one
\* call id at once, a poll run beside a webhook), the calls table never holds
\* more than one row for a call id.
OneCallRowPerId ==
    \A id \in CallIds : RowCount(calls, id) <= 1

\* both webhook requests and the poll run looked up the same call id before
\* any of them wrote, all three wrote, and one row is stored
ThreeUpsertsRaced ==
    /\ \A w \in WebhookProcs :
          /\ pc[w] = "done"
          /\ loc[w].callId = Sym("c1")
          /\ loc[w].selected /\ loc[w].existing = <<>>
          /\ loc[w].wrote \in {"inserted", "rejected"}
    /\ \A p \in PollProcs :
          /\ Len(loc[p].returns) = 1
          /\ loc[p].selected = << << <<>> >> >>
          /\ Field(loc[p].completed[1], "id") = Sym("c1")
          /\ Logged(p, "callWrite")
    /\ RowCount(calls, Sym("c1")) = 1

\* upsertCall number k of the run has returned (not thrown)
UpsertReturned(p, k) ==
    k <= Len(loc[p].returns) /\ loc[p].returns[k] # "thrown"

\* C2: two calls of upsertCall in sequence, with the same call id and
\* identical data, that both return leave exactly one row for the id; the
\* second reports updated (true); for an id that was not stored before, the
\* first reports inserted (false) and the row is the one a single call
\* stores.
UpsertTwiceIsIdempotent ==
    \A p \in PollProcs :
        \A k \in 1..MaxPollCalls :
            (/\ k + 1 <= Len(loc[p].completed)
             /\ loc[p].completed[k] = loc[p].completed[k + 1]
             /\ UpsertReturned(p, k) /\ UpsertReturned(p, k + 1))
            => LET id == Field(loc[p].completed[k], "id")
               IN  /\ loc[p].returns[k + 1] = "updated"
                   /\ RowCount(calls, id) = 1
                   /\ loc[p].selected[k] = << <<>> >> =>
                         /\ loc[p].returns[k] = "inserted"
                         /\ Len(loc[p].returns) = k + 1 =>
                               SelectByCallId(calls, id)
                                   = <<CallRowStored(PollCallData(loc[p].completed[k]))>>

\* the same new call was upserted twice: inserted, then updated
UpsertedTwice ==
    \E p \in PollProcs :
        /\ Len(loc[p].completed) = 2
        /\ loc[p].completed[1] = loc[p].completed[2]
        /\ loc[p].returns = <<"inserted", "updated">>

-----------------------------------------------------------------------------
(* Properties of the webhook handler, checked under SpecWebhook *)

\* the responses a request can get
ResponseEvents == {"res200", "res400", "res500"}

Responses(w) == {i \in DOMAIN log[w] : log[w][i] \in ResponseEvents}

\* the handler is past its synchronous part
PastAck(w) == pc[w] \notin {"off", "w_health", "w_select", "w_write"}

\* C3: every request gets exactly one response, with status 200: never a
\* second one, none with another status, and one has been sent as soon as the
\* synchronous part is over, whatever the event type, the data object, the
\* health insert, the call store and the later work did.
ExactlyOneResponse200 ==
    \A w \in WebhookProcs :
        /\ Cardinality(Responses(w)) <= 1
        /\ \A i \in Responses(w) : log[w][i] = "res200"
        /\ PastAck(w) => Cardinality(Responses(w)) = 1

\* the transcript write failed after the acknowledgment was sent
FailureAfterAck ==
    \E w \in WebhookProcs :
        /\ pc[w] = "done"
        /\ loc[w].response = "processed"
        /\ Logged(w, "txWrite")
        /\ ~loc[w].saved

\* the extraction threw before the acknowledgment
FailureBeforeAck ==
    \E w \in WebhookProcs : pc[w] = "done" /\ loc[w].response = "error"

CallUpsertEvents == {"callSelect", "callWrite"}
DeferredEvents == {"txSelect", "txWrite", "fetch", "analyze", "llm", "analysisWrite"}

\* C4: for a recognized event the 200 is sent after the call upsert attempt
\* and before any transcript upsert, transcript fetch or analysis dispatch
\* begins.
AckAfterUpsertBeforeRest ==
    \A w \in WebhookProcs :
        /\ \A i \in DOMAIN log[w] :
              /\ log[w][i] \in DeferredEvents =>
                    \E j \in 1..(i - 1) : log[w][j] = "res200"
              /\ log[w][i] \in CallUpsertEvents =>
                    \A j \in 1..(i - 1) : log[w][j] # "res200"
        /\ (loc[w] # Null /\ loc[w].response = "processed") =>
              \E i \in DOMAIN log[w] : log[w][i] = "callSelect"

\* a request stored its call, answered, stored the embedded transcript and
\* dispatched the analysis
AckThenTranscriptThenAnalysis ==
    \E w \in WebhookProcs :
        /\ pc[w] # "off"
        /\ loc[w].wrote = "inserted"
        /\ loc[w].saved
        /\ Logged(w, "analyze")

\* a request answered and then fetched the transcript
AckThenDelayedFetch ==
    \E w \in WebhookProcs :
        /\ pc[w] # "off"
        /\ loc[w].wrote = "updated"
        /\ Logged(w, "fetch")
        /\ Logged(w, "analyze")

-----------------------------------------------------------------------------
(* Properties of analyzeCall, checked under SpecAnalyze *)

\* analyzeCall has come back to the procedure that dispatched it
Returned(d) == pc[d] = "d_return"

AnalysisRows(id) == SelectByCallId(analyses, id)

\* C6: analyzeCall never throws to its caller; whatever its lookups, content
\* check, scoring call, parsing, validation and persistence did, it returns a
\* result whose success is true or false, with an error string when false.
AnalyzeCallNeverThrows ==
    \A d \in DispatchProcs :
        Returned(d) =>
            /\ an[d].result.thrown = FALSE
            /\ an[d].result.success \in BOOLEAN
            /\ an[d].result.success = FALSE =>
                /\ an[d].result.error.t = "string"
                /\ Truthy(an[d].result.error)

\* the scoring function threw and analyzeCall returned the failure
AnalyzeCallCaughtLlmFailure ==
    \E d \in DispatchProcs :
        /\ Returned(d)
        /\ Logged(d, "llm")
        /\ an[d].result = AnalyzeFailure("LLM request failed")

\* the call lookup resolved and the store holds no call of that id
CallMissing(d) ==
    an[d].call # Null /\ SelectByCallId(calls, an[d].callId) = <<>>

\* the call exists, no text was supplied, the transcript lookup resolved and
\* the store holds no transcript of that id
TranscriptMissing(d) ==
    /\ SelectByCallId(calls, an[d].callId) # <<>>
    /\ ~Truthy(an[d].providedTranscript)
    /\ an[d].transcript # Null
    /\ SelectByCallId(transcripts, an[d].callId) = <<>>

\* C7: a missing call gives success:false with "Call not found"; an existing
\* call without supplied text and without a transcript row gives
\* success:false with the transcript-not-found error; in both cases the
\* scoring function is not invoked and the analyses are left as they were.
MissingRowsFailWithoutScoring ==
    \A d \in DispatchProcs :
        Returned(d) =>
            /\ CallMissing(d) =>
                /\ an[d].result.success = FALSE
                /\ an[d].result.error = Sym("Call not found")
                /\ ~Logged(d, "llm") /\ ~Logged(d, "analysisWrite")
                /\ analyses = an[d].analyses0
            /\ TranscriptMissing(d) =>
                /\ an[d].result.success = FALSE
                /\ an[d].result.error = Sym("Transcript not found for this call")
                /\ ~Logged(d, "llm") /\ ~Logged(d, "analysisWrite")
                /\ analyses = an[d].analyses0

\* a dispatch for an existing call found no transcript, with an analysis of
\* an earlier run in the store
TranscriptMissingReturned ==
    \E d \in DispatchProcs :
        /\ Returned(d)
        /\ TranscriptMissing(d)
        /\ analyses # <<>>

\* a dispatch for a call id the store does not hold
CallMissingReturned ==
    \E d \in DispatchProcs : Returned(d) /\ CallMissing(d)

ScoreInRange(v) ==
    v.t = "number" /\ ~v.half /\ 0 <= v.n /\ v.n <= MaxScore

BadScores == {Num(150), Str(<<"a","b","c">>), Undef}

\* the scoring function answered with an object whose score is `score`
Answered(d, score) ==
    /\ Logged(d, "llm")
    /\ an[d].analysis # Null
    /\ an[d].analysis.score = score

\* C8: in every state every stored analysis has an integer score in [0,100];
\* an answer whose score is 150, "abc" or missing makes analyzeCall return
\* success:false and store nothing.
StoredScoresInRange ==
    /\ \A i \in DOMAIN analyses : ScoreInRange(analyses[i].score)
    /\ \A d \in DispatchProcs :
        \A bad \in BadScores :
            (Returned(d) /\ Answered(d, bad)) =>
                /\ an[d].result.success = FALSE
                /\ analyses = an[d].analyses0

\* the scoring function answered 150 while an earlier analysis is stored
OutOfRangeAnswerRejected ==
    \E d \in DispatchProcs :
        /\ Returned(d)
        /\ Answered(d, Num(150))
        /\ analyses # <<>>

\* a fractional score passed the validation and was stored
FractionalScoreStored ==
    \E d \in DispatchProcs :
        /\ Returned(d)
        /\ Answered(d, NumHalf(99))
        /\ an[d].result.success = TRUE

\* the transcript was classified empty or broken
NoContent(d) == an[d].class \in {"empty", "broken"}

PlaceholderStored(id) ==
    /\ Len(AnalysisRows(id)) = 1
    /\ AnalysisRows(id)[1].score = Num(0)
    /\ AnalysisRows(id)[1].complianceCheck = Sym("Review")

\* C9 as stated: on an empty or broken transcript the scoring function is
\* never invoked, analyzeCall returns success:true with score 0, and the
\* stored analysis of the call has score 0 and verdict "Review".
PlaceholderAlwaysSucceeds ==
    \A d \in DispatchProcs :
        (Returned(d) /\ NoContent(d)) =>
            /\ ~Logged(d, "llm")
            /\ an[d].result.success = TRUE
            /\ an[d].result.score = Num(0)
            /\ PlaceholderStored(an[d].callId)

\* C9, amended: on an empty or broken transcript the scoring function is
\* never invoked; analyzeCall returns success:true with score 0 and the
\* stored analysis has score 0 and verdict "Review", unless one of the store
\* operations of the placeholder save failed, and then it returns
\* success:false with that failure.
PlaceholderUnlessStoreFails ==
    \A d \in DispatchProcs :
        (Returned(d) /\ NoContent(d)) =>
            /\ ~Logged(d, "llm")
            /\ \/ /\ an[d].result.success = TRUE
                  /\ an[d].result.score = Num(0)
                  /\ PlaceholderStored(an[d].callId)
               \/ an[d].result = AnalyzeFailure("db error")

\* a broken transcript got its placeholder over an earlier analysis
BrokenPlaceholderReturned ==
    \E d \in DispatchProcs :
        /\ Returned(d)
        /\ an[d].class = "broken"
        /\ an[d].result.success = TRUE
        /\ an[d].analyses0 # <<>>
        /\ PlaceholderStored(an[d].callId)

-----------------------------------------------------------------------------
(* Properties of the routing decisions, checked under SpecRouting *)

\* the configured lines; the defaults of the poll path stand in for a line
\* the environment does not set
ConfiguredMain == Or(env.main, DefaultMainPhoneId)
ConfiguredOutbound == Or(env.outbound, DefaultOutboundPhoneId)

\* the routing policy for the probed call
PolicySaysAnalyze ==
    \/ /\ probe.line = ConfiguredMain
       /\ probe.direction = Sym("incoming")
       /\ probe.duration # Undef /\ probe.duration.n > MinMainDuration
    \/ /\ probe.line = ConfiguredOutbound
       /\ probe.direction = Sym("outgoing")

\* C5: for every line identifier (absent included), direction and duration,
\* with the lines configured or not, the poll filter and the webhook routing
\* both answer analyze = true exactly when the call is main-line inbound
\* over 30 seconds or outbound-line outbound, and so always agree.
RoutingFollowsPolicy ==
    /\ verdict.poll # Null => verdict.poll = Bool(PolicySaysAnalyze)
    /\ verdict.webhook # Null => verdict.webhook = Bool(PolicySaysAnalyze)
    /\ (verdict.poll # Null /\ verdict.webhook # Null) => verdict.poll = verdict.webhook

-----------------------------------------------------------------------------
(* Properties of the ingestion paths, checked under SpecIngest *)

\* the item has neither text nor speaker
BareItem(d) == ~Truthy(d.content) /\ ~Truthy(d.userId) /\ ~Truthy(d.identifier)

\* C10: a non-empty dialogue, of any length, whose items all lack text and
\* speaker is classified broken once ingested by the poll fetch, the
\* webhook's delayed fetch or the historical import; it is never taken for a
\* transcript with content.
BareDialogueIsBroken ==
    (verdict # Null /\ \A i \in DOMAIN probe.dialogue : BareItem(probe.dialogue[i]))
        => verdict.class = "broken"

-----------------------------------------------------------------------------
(* Properties of the embedded transcript of a webhook event, checked under  *)
(* SpecWebhook                                                              *)

\* every item of the dialogue has content and none has a speaker identifier
SpeakerlessDialogue(dialogue) ==
    /\ IsArray(dialogue)
    /\ dialogue.a # <<>>
    /\ \A i \in DOMAIN dialogue.a :
          HasContentField(dialogue.a[i]) /\ ~HasSpeakerField(dialogue.a[i])

\* the request handled a transcript-completed event of a call that qualifies,
\* stored the call, and is over
SpeakerlessEventHandled(w) ==
    /\ pc[w] = "done"
    /\ loc[w].response = "processed"
    /\ IsTranscriptCompleted(loc[w].type)
    /\ loc[w].shouldAnalyze
    /\ loc[w].wrote \in {"inserted", "updated"}
    /\ SpeakerlessDialogue(loc[w].dialogue)

\* C11 as stated: after a transcript-completed event of a qualifying call
\* whose dialogue items all have content and no speaker identifier, the
\* zero-score placeholder analysis is stored for the call and the scoring
\* function was never called.
SpeakerlessEventGetsPlaceholder ==
    \A w \in WebhookProcs :
        SpeakerlessEventHandled(w) =>
            /\ ~Logged(w, "llm")
            /\ PlaceholderStored(loc[w].callId)

-----------------------------------------------------------------------------
(* Properties of a run of syncCalls, checked under SpecPoll *)

Count(seq, x) == Cardinality({i \in DOMAIN seq : seq[i] = x})

\* the run has returned its SyncResult
PollReturned(p) == pc[p] = "done"

\* C12 as stated: syncCalls always returns a SyncResult, and every per-call
\* failure (a call upsert, a transcript fetch, an analysis dispatch that
\* failed) has its entry in the result's error list.
PollFailuresAllRecorded ==
    \A p \in PollProcs :
        PollReturned(p) =>
            LET r == loc[p].result
            IN  /\ r.success \in BOOLEAN
                /\ Count(r.errors, "Failed to save call") = Count(loc[p].returns, "thrown")
                /\ Count(r.errors, "Analysis failed for call") = Count(log[p], "analysisFailed")
                /\ Count(r.errors, "Transcript failed for call")
                      = Count(log[p], "transcriptFailed")
                          + Count(log[p], "transcriptFailed404")

\* the run went through its three loops and one transcript fetch failed with
\* an error other than a 404
OneTranscriptFetchFailed(p) ==
    /\ PollReturned(p)
    /\ loc[p].phase = "analysis"
    /\ Count(log[p], "transcriptFailed") = 1

\* C13 as stated: when the transcript fetch of one of the completed calls
\* fails with a non-404 error, every completed call still had its transcript
\* fetch and every qualifying call its analysis dispatch, the failure did not
\* set the run's success flag to false, and the failure is in the returned
\* error list.
TranscriptFailureRecordedRunGoesOn ==
    \A p \in PollProcs :
        OneTranscriptFetchFailed(p) =>
            /\ Count(log[p], "fetch") = Len(loc[p].completed)
            /\ Count(log[p], "analyze") = Len(loc[p].toAnalyze)
            /\ loc[p].result.success = TRUE
            /\ Count(loc[p].result.errors, "Transcript failed for call") = 1

\* the run fetched a main-line inbound call of 45 s, an outbound-line
\* outbound call of 10 s and a missed call, and every collaborator succeeded:
\* both upserts, both transcript fetches, every analysis dispatched
ThreeCallRunSucceeded(p) ==
    /\ PollReturned(p)
    /\ loc[p].page = CallPage(<<MainInbound45, OutboundOutgoing10, MissedCall>>)
    /\ loc[p].returns = <<"inserted", "inserted">>
    /\ loc[p].result.transcriptsSynced = 2
    /\ loc[p].result.errors = <<>>

\* C14 as stated: such a run upserts exactly the two completed calls,
\* dispatches the analysis of both, and never upserts the missed call.
ThreeCallRunAnalyzesBoth ==
    \A p \in PollProcs :
        ThreeCallRunSucceeded(p) =>
            /\ loc[p].result.callsSynced = 2
            /\ RowCount(calls, Sym("c1")) = 1 /\ RowCount(calls, Sym("c2")) = 1
            /\ RowCount(calls, Sym("c3")) = 0
            /\ Len(calls) = 2
            /\ Count(log[p], "analyze") = 2

-----------------------------------------------------------------------------
(* Properties of the delayed transcript fetch, checked under SpecWebhook *)

\* the request handled a call-completed event without embedded dialogue
BareCallCompleted(w) ==
    /\ pc[w] # "off"
    /\ loc[w].response = "processed"
    /\ IsCallCompleted(loc[w].type)
    /\ ~LengthPositive(loc[w].dialogue)

\* the positions of an event in a request's log
Positions(w, event) == {i \in DOMAIN log[w] : log[w][i] = event}

\* C15: for a call-completed event without embedded dialogue that the routing
\* qualifies, the 200 is sent first, then the timer fires once and one
\* transcript fetch is made; the analysis is dispatched exactly when that
\* fetch stored a transcript, and no second fetch is ever made.  When the
\* routing does not qualify the call, no fetch is scheduled.
OneDelayedFetchThenAnalysis ==
    \A w \in WebhookProcs :
        BareCallCompleted(w) =>
            /\ Count(log[w], "fetch") <= 1
            /\ \A i \in Positions(w, "fetch") : \E j \in 1..(i - 1) : log[w][j] = "res200"
            /\ \A i \in Positions(w, "analyze") : \E j \in 1..(i - 1) : log[w][j] = "fetch"
            /\ ~loc[w].shouldAnalyze =>
                  /\ pc[w] = "done"
                  /\ ~Logged(w, "fetch") /\ ~Logged(w, "analyze")
            /\ (loc[w].shouldAnalyze /\ pc[w] = "done") =>
                  /\ Count(log[w], "fetch") = 1
                  /\ Logged(w, "analyze")
                        <=> (~loc[w].fetch.thrown /\ loc[w].fetch.saved)

\* the one fetch found no transcript (a 404) and the request ended without an
\* analysis
DelayedFetchFoundNothing ==
    \E w \in WebhookProcs :
        /\ BareCallCompleted(w)
        /\ pc[w] = "done"
        /\ loc[w].shouldAnalyze
        /\ loc[w].fetch.status = 404 /\ ~loc[w].fetch.thrown
        /\ ~Logged(w, "analyze")

\* the one fetch stored a transcript and the analysis was dispatched and came
\* back
DelayedFetchStoredThenAnalyzed ==
    \E w \in WebhookProcs :
        /\ BareCallCompleted(w)
        /\ pc[w] = "done"
        /\ loc[w].shouldAnalyze
        /\ loc[w].fetch.saved
        /\ Count(log[w], "fetch") = 1
        /\ Logged(w, "analyze")

-----------------------------------------------------------------------------
(* Properties of fetchTranscriptForCall, checked under SpecPoll *)

\* fetchTranscriptForCall has just come back to the transcript loop
FetchCameBack(p) == pc[p] = "p_fetched"

\* C16 as stated: when the provider answers the transcript request with HTTP
\* 404, whatever the body, fetchTranscriptForCall returns false and stores
\* nothing; every other failure of the request is thrown to the caller.
NotFoundMeansNoTranscript ==
    \A p \in PollProcs :
        FetchCameBack(p) =>
            LET f == loc[p].fetch
            IN  /\ f.status = 404 => (~f.thrown /\ ~f.saved /\ f.data = Null)
                /\ (f.error # <<>> /\ f.status # 404) => f.thrown

-----------------------------------------------------------------------------
(* Properties of the webhook's update of a stored call, checked under       *)
(* SpecWebhook                                                              *)

\* the request found the call stored and updated it
UpdatedStoredCall(w) == pc[w] # "off" /\ loc[w].wrote = "updated"

\* the columns of a call row and the field of the event each is taken from
EventFieldOf ==
    [duration |-> "duration", completedAt |-> "completedAt", status |-> "status",
     phoneNumberId |-> "phoneNumberId", direction |-> "direction"]

\* the event does not carry field f
AbsentFromEvent(w, f) ==
    Field(CallDataOf(Field(loc[w].body, "data")), f) = Undef

\* C17 as stated: when the event is for a call already stored, every stored
\* column whose value the event does not carry (duration, completed
\* timestamp, status, line id, direction) keeps its stored value.
UpdateKeepsAbsentFields ==
    \A w \in WebhookProcs :
        UpdatedStoredCall(w) =>
            LET old == loc[w].existing[1]
                row == SelectByCallId(calls, loc[w].callId)[1]
            IN  \A col \in DOMAIN EventFieldOf :
                    AbsentFromEvent(w, EventFieldOf[col]) => row[col] = old[col]

-----------------------------------------------------------------------------
(* Properties of the event type branch, checked under SpecWebhook *)

\* the request's event is neither call.completed nor call.transcript.completed
OtherEventType(w) ==
    /\ pc[w] # "off"
    /\ ~IsCallCompleted(Field(loc[w].body, "type"))
    /\ ~IsTranscriptCompleted(Field(loc[w].body, "type"))

\* C18: an event of another type is answered with 200 and processed:false,
\* and handling it leaves the calls, transcripts and analyses tables as they
\* were; nothing is fetched and no analysis is dispatched for it.
OtherEventsAcknowledgedOnly ==
    [][\A w \in WebhookProcs :
          (OtherEventType(w) /\ pc'[w] # pc[w]) =>
              /\ pc[w] = "w_health" /\ pc'[w] = "done"
              /\ loc'[w].response = "ignored"
              /\ log'[w] = <<"res200">>
              /\ UNCHANGED <<calls, transcripts, analyses>>]_vars

\* a call.ringing event for a stored call was acknowledged and ignored
RingingEventIgnored ==
    \E w \in WebhookProcs :
        /\ pc[w] = "done"
        /\ Field(loc[w].body, "type") = Sym("call.ringing")
        /\ loc[w].response = "ignored"
        /\ calls # <<>>

-----------------------------------------------------------------------------
(* Properties of a failed analyzeCall, checked under SpecAnalyze *)

\* C19 as stated: whenever analyzeCall returns success:false the analyses
\* table is exactly what it was before the call, also when a store write
\* fails part-way through the placeholder path.
FailureLeavesAnalysesAsBefore ==
    \A d \in DispatchProcs :
        (Returned(d) /\ an[d].result.success = FALSE) =>
            analyses = an[d].analyses0

-----------------------------------------------------------------------------
(* Properties of concurrent dispatches for one call, checked under SpecRace *)

\* the analyses row a dispatch produces from its own result: what
\* saveAnalysisToDatabase writes and, on the placeholder path, what the
\* update after it leaves
OwnAnalysisRow(d) ==
    LET f == an[d]
        saved == AnalysisRowStored(
                     AnalysisData(f.callId, f.analysis, f.phoneNumberId, f.callDirection, env))
    IN  IF f.class # "content"
        THEN SetFields(saved, PlaceholderUpdate(f.class = "broken", f.phoneNumberId, env))
        ELSE saved

\* the step on which analyzeCall of dispatch d returns success
ReportsSuccess(d) ==
    /\ pc[d] \in {"a_save_write", "a_ph_update"}
    /\ pc'[d] = "d_return"
    /\ an'[d].result.success = TRUE

AtMostOneAnalysisPerCall ==
    \A i, j \in DOMAIN analyses : analyses[i].callId = analyses[j].callId => i = j

\* C20 as stated: under any interleaving of analysis dispatches for the same
\* call id the analyses table holds at most one row for that id, and when a
\* dispatch reports success that row is the dispatch's own result.
SuccessfulDispatchOwnsTheRow ==
    /\ []AtMostOneAnalysisPerCall
    /\ [][\A d \in RaceProcs :
             ReportsSuccess(d) =>
                 SelectByCallId(analyses', an[d].callId) = <<OwnAnalysisRow(d)>>]_vars

-----------------------------------------------------------------------------
(* Properties of the startup catch-up, checked under SpecSched *)

\* the startup check has just decided: it skipped, or the catch-up run has
\* begun and nothing else has run since
StartupSkipped(p) == pc[p] = "s_idle" /\ sched.decision = "skip" /\ sched.crons = 0
StartupRunBegun(p) ==
    pc[p] = "p_fetch" /\ sched.trigger = "startup" /\ sched.line = "main"

\* the time stamp ts is more than 24 hours old, or there is none
Stale(ts) == ts = 0 \/ ts < sched.now - TwentyFourHours

\* C21 as stated: at startup the catch-up run is started if and only if the
\* recorded time stamp is more than 24 hours old or none is recorded, and the
\* recorded time stamp is that of the last successful run: the catch-up is
\* skipped only when a run succeeded within the last 24 hours.
CatchUpUnlessRecentSuccess ==
    \A p \in PollProcs :
        /\ StartupSkipped(p) => ~Stale(sched.config.lastSyncTimestamp)
        /\ StartupRunBegun(p) => Stale(sched.config.lastSyncTimestamp)
        /\ StartupSkipped(p) => ~Stale(sched.lastOk)

-----------------------------------------------------------------------------
(* Properties of the order of the steps, checked under SpecPaths *)

TranscriptUpsertEvents == {"fetch", "txSelect", "txWrite"}
AnalysisEvents == {"analyze", "llm", "analysisWrite"}

\* in the events of process p, every event of `first` precedes every event
\* of `second`
Precede(p, first, second) ==
    \A i, j \in DOMAIN log[p] :
        (log[p][i] \in first /\ log[p][j] \in second) => i < j

\* C22: within a poll run and within a webhook request, the store operations
\* of the call upsert are over before the transcript fetch and upsert begin,
\* and those are over before the analysis of the call is dispatched.
CallThenTranscriptThenAnalysis ==
    \A p \in WebhookProcs \cup PollProcs :
        /\ Precede(p, CallUpsertEvents, TranscriptUpsertEvents)
        /\ Precede(p, TranscriptUpsertEvents, AnalysisEvents)
        /\ Precede(p, CallUpsertEvents, AnalysisEvents)

\* a poll run upserted two calls, stored a transcript and saved an analysis
PollRunWentThroughAllSteps ==
    \E p \in PollProcs :
        /\ pc[p] = "done"
        /\ Count(log[p], "callWrite") = 2
        /\ Logged(p, "txWrite")
        /\ Logged(p, "analysisWrite")

-----------------------------------------------------------------------------
(* Properties of the page loop, checked under SpecPaged *)

\* the calls of the first n pages of a book, in order
RECURSIVE FirstPages(_, _)
FirstPages(book, n) == IF n = 0 THEN <<>> ELSE FirstPages(book, n - 1) \o book[n]

CompletedOf(callList) ==
    SelectSeq(callList, LAMBDA c : Field(c, "status") = Sym("completed"))

\* the page loop of run p is over
PagingOver(p) == pc[p] \notin {"off", "p_open", "p_page"} /\ loc[p].requests # <<>>

\* a request of the run failed
PageFailed(p) == loc[p].page.k = "error"

\* C23: the k-th request of a run asks for page k with the token the response
\* before it returned (none for the first); the loop ends at the first
\* response without a token or at the first failed request, which is not
\* repeated; a failure is recorded with success false; and the calls of the
\* pages fetched before it are filtered, upserted and processed like those
\* of a run without a failure.
PagesInOrderUntilEndOrError ==
    \A p \in PollProcs :
        /\ pc[p] # "off" =>
              \A k \in DOMAIN loc[p].requests :
                  loc[p].requests[k] = IF k = 1 THEN Undef ELSE PageToken(k)
        /\ PagingOver(p) =>
              LET l == loc[p]
                  n == Len(l.requests)
              IN  /\ n <= Len(l.book)
                  /\ ~PageFailed(p) =>
                        /\ n = Len(l.book)
                        /\ l.page.data = FirstPages(l.book, n)
                  /\ PageFailed(p) =>
                        /\ l.page.data = FirstPages(l.book, n - 1)
                        /\ l.result.success = FALSE
                        /\ l.result.errors # <<>>
                        /\ l.result.errors[1] = "Failed to fetch calls"
                  /\ l.completed = CompletedOf(l.page.data)
                  /\ pc[p] = "done" =>
                        /\ Count(l.returns, "thrown") + l.result.callsSynced
                              = Len(l.completed)
                        /\ Count(log[p], "fetch") = Len(l.completed)
                        /\ Count(log[p], "analyze") = Len(l.toAnalyze)

\* the third request of a run failed and the call of the second page was
\* stored and analyzed
ThirdPageFailedSecondProcessed ==
    \E p \in PollProcs :
        /\ pc[p] = "done"
        /\ PageFailed(p)
        /\ Len(loc[p].requests) = 3
        /\ loc[p].result.callsSynced = 1
        /\ Logged(p, "analysisWrite")
        /\ calls # <<>>

-----------------------------------------------------------------------------
(* Properties of the completed filter, checked under SpecPoll *)

\* the ids of the fetched calls whose status is not "completed"
NotCompletedIds(p) ==
    {Field(loc[p].page.data[k], "id") :
        k \in {j \in DOMAIN loc[p].page.data :
                  Field(loc[p].page.data[j], "status") # Sym("completed")}}

\* run p is inside upsertCall, fetchTranscriptForCall or analyzeCall for id
WorkingOn(p, id) ==
    \/ pc[p] \in {"p_select", "p_write"}
          /\ Field(loc[p].completed[loc[p].i], "id") = id
    \/ pc[p] \in {"f_fetch", "f_select", "f_write", "p_fetched"}
          /\ loc[p].fetch.callId = id
    \/ an[p].ret # "" /\ an[p].callId = id

\* C24: a poll run never upserts a call row, fetches a transcript or
\* dispatches an analysis for a fetched call whose status is not
\* "completed".
OnlyCompletedCallsProcessed ==
    \A p \in PollProcs :
        \A id \in NotCompletedIds(p) :
            /\ ~WorkingOn(p, id)
            /\ SelectByCallId(calls, id) = <<>>
            /\ SelectByCallId(transcripts, id) = <<>>
            /\ SelectByCallId(analyses, id) = <<>>

\* a run whose page held a missed call stored the two completed ones
MissedCallLeftOut ==
    \E p \in PollProcs :
        /\ pc[p] = "done"
        /\ NotCompletedIds(p) # {}
        /\ loc[p].result.callsSynced = 2
        /\ Len(calls) = 2

-----------------------------------------------------------------------------
(* Properties of the compliance verdict, checked under SpecVerdict *)

\* the sub-checks of the probed answer, none when they are missing
SubChecks ==
    IF probe.analysis.complianceChecks = Undef THEN <<>>
    ELSE probe.analysis.complianceChecks.a

Compliant == {i \in DOMAIN SubChecks : SubChecks[i].compliant = Bool(TRUE)}

\* C25: for an inbound call the verdict is Pass when all sub-checks are
\* compliant (also when there are none), Fail when fewer than half are, and
\* Review otherwise; for an outbound call it is Pass for the outcomes
\* "Appointment" and "Callback Scheduled", Fail for the outcome "Not
\* Interested" or the breakdown point "Introduction", and Review otherwise.
VerdictFollowsTheRule ==
    verdict # Null =>
        IF probe.direction = Sym("incoming")
        THEN /\ (Compliant = DOMAIN SubChecks) => verdict = Sym("Pass")
             /\ (2 * Cardinality(Compliant) < Len(SubChecks)) => verdict = Sym("Fail")
             /\ (Compliant # DOMAIN SubChecks
                    /\ 2 * Cardinality(Compliant) >= Len(SubChecks)) =>
                        verdict = Sym("Review")
        ELSE LET pass == probe.analysis.outcome \in
                            {Sym("Appointment"), Sym("Callback Scheduled")}
                 fail == \/ probe.analysis.outcome = Sym("Not Interested")
                         \/ probe.analysis.breakdownPoint = Sym("Introduction")
             IN  /\ pass => verdict = Sym("Pass")
                 /\ (~pass /\ fail) => verdict = Sym("Fail")
                 /\ (~pass /\ ~fail) => verdict = Sym("Review")

\* an inbound answer with one of two sub-checks compliant got Review
HalfCompliantReviewed ==
    /\ verdict = Sym("Review")
    /\ probe.direction = Sym("incoming")
    /\ Len(SubChecks) = 2
    /\ Cardinality(Compliant) = 1

-----------------------------------------------------------------------------
(* Properties of interleaved call upserts, checked under SpecUpsert *)

\* the calls table after the webhook call upsert with locals l ran alone on
\* tbl, every store operation succeeding
UpsertOnto(tbl, l) ==
    LET existing == SelectByCallId(tbl, l.callId)
    IN  IF existing # <<>>
        THEN UpdateWhere(tbl, l.callId, WebhookCallUpdate(l, existing[1]))
        ELSE IF CallInsertRejected(tbl, WebhookCallRecord(l)) THEN tbl
        ELSE InsertCall(tbl, WebhookCallRecord(l))

\* both webhook requests carried the same call id, looked it up before either
\* wrote, and their writes were not failed by the store
UpsertsInterleaved ==
    /\ \A w \in WebhookProcs :
          /\ pc[w] = "done"
          /\ loc[w].selected
          /\ loc[w].wrote \in {"inserted", "updated", "rejected"}
    /\ loc["w1"].callId = loc["w2"].callId
    /\ loc["w1"].existing = loc["w2"].existing
    /\ \A p \in PollProcs :
          pc[p] = "done" /\ \A k \in DOMAIN loc[p].completed :
                               Field(loc[p].completed[k], "id") # loc["w1"].callId

\* C26 as stated: when two call upserts for one call id interleave at their
\* lookups and writes, neither write is lost to an insert the store refuses
\* because the other upsert inserted first, and the final row is the one
\* that some sequential order of the two upserts produces.
InterleavedUpsertsLoseNothing ==
    UpsertsInterleaved =>
        LET l1 == loc["w1"]
            l2 == loc["w2"]
            before == l1.existing
            row == SelectByCallId(calls, l1.callId)
        IN  /\ \A l \in {l1, l2} :
                  l.wrote = "rejected" => CallInsertRejected(before, WebhookCallRecord(l))
            /\ \/ row = SelectByCallId(UpsertOnto(UpsertOnto(before, l1), l2), l1.callId)
               \/ row = SelectByCallId(UpsertOnto(UpsertOnto(before, l2), l1), l1.callId)

-----------------------------------------------------------------------------
(* Two webhook events delivered one after the other: the second request    *)
(* arrives when the first one's handler and its deferred work are over.     *)

\* new Date() of a request received later than Now
Later == Sym("later")

\* the dialogue of a transcript event
EventDialogue == Arr(<<ItemAgent, ItemCaller>>)

\* a call.completed event without dialogue for a call of the main line
CompletedNoDialogue ==
    Body(T_Completed, Nested(CallEvent(Sym("c1"), MainLine, Sym("incoming"), Num(45), Undef)))

\* call.transcript.completed events: one names the line and the direction
\* of its call, the other carries the call id and the dialogue only
TranscriptFull ==
    Body(T_Transcript, Nested(TranscriptEvent(Sym("c1"), MainLine, Sym("incoming"),
                                              Num(45), EventDialogue)))
TranscriptBare ==
    Body(T_Transcript, Nested(TranscriptEvent(Sym("c1"), Undef, Undef, Num(45), EventDialogue)))

\* the event of the first request and the event of the second one
Deliveries ==
    {<<CompletedNoDialogue, CompletedNoDialogue>>,
     <<TranscriptFull, TranscriptFull>>,
     <<CompletedNoDialogue, TranscriptFull>>,
     <<CompletedNoDialogue, TranscriptBare>>}

\* the server takes the second request
WebhookReceive(w) ==
    /\ pc[w] = "w_queued"
    /\ \A v \in WebhookProcs \ {w} : pc[v] = "done"
    /\ pc' = [pc EXCEPT ![w] = "w_health"]
    /\ UNCHANGED <<calls, transcripts, analyses, health, env, loc, an, log, probe,
                   verdict, sched>>

InitDeliveries ==
    /\ calls = <<>> /\ transcripts = <<>> /\ analyses = <<>> /\ health = 0
    /\ env = [main |-> MainLine, outbound |-> OutboundLine]
    /\ pc = [p \in Procs |-> IF p = "w1" THEN "w_health"
                             ELSE IF p = "w2" THEN "w_queued" ELSE "off"]
    /\ \E d \in Deliveries :
          loc = [p \in Procs |->
                   IF p = "w1" THEN WebhookLocals(d[1])
                   ELSE IF p = "w2" THEN [WebhookLocals(d[2]) EXCEPT !.receivedAt = Later]
                   ELSE Null]
    /\ an = [p \in Procs |-> NoFrame]
    /\ log = [p \in Procs |-> <<>>]
    /\ probe = Null
    /\ verdict = Null
    /\ sched = Null

NextDeliveries == (\E w \in WebhookProcs : WebhookReceive(w)) \/ NextWebhook

SpecDeliveries == InitDeliveries /\ [][NextDeliveries]_vars

-----------------------------------------------------------------------------
(* Properties of two deliveries in sequence, checked under SpecDeliveries  *)

\* the same event was delivered twice in sequence and both handlers stored
\* their call: the first inserted it, the second updated it
SameEventTwice ==
    /\ \A w \in WebhookProcs : pc[w] = "done"
    /\ loc["w1"].body = loc["w2"].body
    /\ loc["w1"].wrote = "inserted"
    /\ loc["w2"].wrote = "updated"

\* both handlers stored the transcript of the dialogue their event carried
BothStoredTranscript == \A w \in WebhookProcs : loc[w].saved

\* the tables after the first delivery alone
CallsAfterOne == InsertCall(<<>>, WebhookCallRecord(loc["w1"]))
TranscriptsAfterOne == InsertTranscript(<<>>, loc["w1"].fetch.data)

\* C27 as stated: after the same webhook event was delivered twice in
\* sequence there is exactly one Call row and one Transcript row for the
\* call, and their fields have the values a single delivery leaves.
RedeliveryChangesNothing ==
    SameEventTwice =>
        /\ calls = CallsAfterOne
        /\ BothStoredTranscript => transcripts = TranscriptsAfterOne

\* the part of C27 that holds: one row of each, the transcript row and every
\* column of the call row but completedAt as a single delivery leaves them
RedeliveryKeepsAllButCompletedAt ==
    SameEventTwice =>
        /\ Len(calls) = 1
        /\ \A f \in DOMAIN calls[1] \ {"completedAt"} : calls[1][f] = CallsAfterOne[1][f]
        /\ BothStoredTranscript => transcripts = TranscriptsAfterOne

\* the second delivery of a transcript event moved completedAt
CompletedAtMoved ==
    /\ SameEventTwice /\ BothStoredTranscript
    /\ calls[1].completedAt = Later
    /\ CallsAfterOne[1].completedAt = Now

\* both requests and their deferred work are over
Quiet == \A w \in WebhookProcs : pc[w] = "done"

AnalysisStored(id) == RowCount(analyses, id) > 0

\* the call.completed event of a call the routing qualifies came without
\* dialogue, its delayed fetch found no transcript at the provider, and the
\* call.transcript.completed event for the call carried valid dialogue
LateTranscript ==
    /\ IsCallCompleted(loc["w1"].type)
    /\ loc["w1"].shouldAnalyze
    /\ ~LengthPositive(loc["w1"].dialogue)
    /\ loc["w1"].fetch # Null
    /\ ~loc["w1"].fetch.thrown /\ ~loc["w1"].fetch.saved
    /\ IsTranscriptCompleted(loc["w2"].type)
    /\ loc["w2"].callId = loc["w1"].callId
    /\ IsArray(loc["w2"].dialogue)
    /\ ValidDialogue(loc["w2"].dialogue.a) # <<>>

\* every store operation of the two handlers succeeded, and analyzeCall,
\* if it was dispatched, reported success
AllSucceeded ==
    /\ loc["w1"].wrote = "inserted"
    /\ loc["w2"].wrote = "updated"
    /\ loc["w2"].saved
    /\ \A w \in WebhookProcs : an[w].result # Null => an[w].result.success = TRUE

\* C28 as stated: when a qualifying call's call.completed event came
\* without dialogue, the delayed fetch found no transcript, the
\* call.transcript.completed event with valid dialogue came afterwards and
\* every store and scoring operation succeeded, an Analysis row for the call
\* exists once the handlers and their deferred work are over (nothing is
\* left that could store one later).
LateTranscriptGetsAnalyzed ==
    Quiet /\ LateTranscript /\ AllSucceeded => AnalysisStored(loc["w1"].callId)

\* the part of C28 that holds: the Analysis row exists when the transcript
\* event itself names a line and a direction that the routing qualifies
QualifyingTranscriptEventAnalyzed ==
    Quiet /\ LateTranscript /\ AllSucceeded /\ loc["w2"].shouldAnalyze
        => AnalysisStored(loc["w1"].callId)

\* the transcript event was stored and its analysis was saved
LateTranscriptAnalyzed ==
    Quiet /\ LateTranscript /\ AllSucceeded /\ AnalysisStored(loc["w1"].callId)

\* the transcript event named no line: stored, never analyzed
LateTranscriptLeftUnanalyzed ==
    /\ Quiet /\ LateTranscript /\ AllSucceeded
    /\ loc["w2"].phoneNumberId = Undef
    /\ ~AnalysisStored(loc["w1"].callId)

-----------------------------------------------------------------------------
(* A manual dispatch beside an ingestion: analyzeCall is called through    *)
(* the API router while a webhook request or a poll run is storing the     *)
(* call it names                                                            *)

StoreBodies == {CompletedNoDialogue, TranscriptFull, TranscriptBare}

StorePages == {CallPage(<<MainInbound45>>), FailedPage}

StoreDispatches ==
    [callId : {Sym("c1")}, transcriptText : {Undef, Str(T_Thanks)},
     callDirection : {Undef}, phoneNumberId : {Undef}]

InitStore ==
    /\ calls = <<>> /\ transcripts = <<>> /\ analyses = <<>> /\ health = 0
    /\ env = [main |-> MainLine, outbound |-> OutboundLine]
    /\ \E ingest \in {"w1", "p1"} :
          /\ pc = [p \in Procs |-> IF p = "d1" THEN "d_idle"
                                   ELSE IF p # ingest THEN "off"
                                   ELSE IF p = "w1" THEN "w_health" ELSE "p_fetch"]
          /\ \E body \in StoreBodies, page \in StorePages, o \in StoreDispatches :
                loc = [p \in Procs |->
                         IF p = "d1" THEN [options |-> o, result |-> Null]
                         ELSE IF p # ingest THEN Null
                         ELSE IF p = "w1" THEN WebhookLocals(body)
                         ELSE PollLocals(SchedOptions(MainLine), page)]
    /\ an = [p \in Procs |-> NoFrame]
    /\ log = [p \in Procs |-> <<>>]
    /\ probe = Null
    /\ verdict = Null
    /\ sched = Null

NextStore == NextWebhook \/ NextPoll \/ NextAnalyze

SpecStore == InitStore /\ [][NextStore]_vars

-----------------------------------------------------------------------------
(* Properties of the stored rows, checked under SpecStore *)

\* C29: in every reachable state every call id that has an Analysis row has
\* a Call row too, whatever ingestion (a webhook request, its Call upsert
\* failed or not, or a poll run) and manual dispatch ran and however their
\* store operations failed.
AnalysesHaveCalls ==
    \A i \in DOMAIN analyses : RowCount(calls, analyses[i].callId) > 0

\* the Call upsert of the webhook failed, its transcript was stored and its
\* dispatch found no call; the manual dispatch found none either
UnstoredCallNotAnalyzed ==
    /\ pc["w1"] = "done" /\ pc["d1"] = "done"
    /\ loc["w1"].wrote = "failed" /\ loc["w1"].saved
    /\ an["w1"].result = AnalyzeFailure("Call not found")
    /\ loc["d1"].result = AnalyzeFailure("Call not found")
    /\ calls = <<>> /\ analyses = <<>>

-----------------------------------------------------------------------------
(* Termination of a poll run, checked under SpecPagedFair *)

\* every awaited provider, store and scoring call of the run returns or
\* fails: the run is not left waiting for ever at an awaited operation.  The
\* provider's book is finite, so its last page carries no nextPageToken.
SpecPagedFair == SpecPaged /\ WF_vars(NextPaged)

\* syncCalls returned its result
RunReturned(p) == pc[p] = "done" /\ loc[p].result.success \in BOOLEAN

\* the step on which the run leaves the page loop
LeavesPageLoop(p) == pc[p] = "p_page" /\ pc'[p] # "p_page"

\* C30: every poll run terminates and returns its result, and the page
\* loop is left only on a fetch error or after a response without a
\* nextPageToken.
PollRunTerminates ==
    /\ <>(\A p \in PollProcs : RunReturned(p))
    /\ [][\A p \in PollProcs :
             LeavesPageLoop(p) =>
                 loc'[p].page.k = "error" \/ ~Truthy(loc'[p].pageToken)]_vars

\* a run that read three pages and went through its loops to the end
ThreePagesRunReturned ==
    /\ RunReturned("p1")
    /\ Len(loc["p1"].requests) = 3
    /\ loc["p1"].result.success
    /\ loc["p1"].result.callsSynced > 0

=============================================================================
